---- MODULE Spec2Model ----
(***************************************************************************)
(* Model of the translation plugin's service layer:                        *)
(*   - ContentTranslationService (translateText, cache, history, batch     *)
(*     tasks) from src/services/content-translation.ts,                    *)
(*   - BaseTranslator.translate / validateRequest from translator/base,    *)
(*   - TranslatorFactory.createTranslatorAsync from translator/factory.ts, *)
(*   - HttpUtils.request / shouldRetry and CryptoUtils.hash from utils,    *)
(*   - BaseTranslator as an object (initialize, translate, updateConfig,   *)
(*     destroy) and TranslatorFactory (register, unregister, create,       *)
(*     destroyInstance, destroyAllInstances, getAvailableInstances,        *)
(*     reinitializeInstance, createMultipleTranslators) with their         *)
(*     instances,                                                          *)
(*   - ContentTranslationService.batchTranslate.                           *)
(* Strings that are hashed, trimmed or validated are sequences of UTF-16   *)
(* code units; enum values and messages are TLA+ strings.                  *)
(***************************************************************************)
EXTENDS Integers, Sequences, FiniteSets, TLC

VARIABLES
  \* ContentTranslationService
  isInitialized,       \* private isInitialized
  svcPc,               \* position of the initialize()/destroy() coroutine
  translationCache,    \* Map<string, TranslationCacheItem>, in insertion order
  translationHistory,  \* TranslationHistory[]
  settings,            \* ConfigService.config: the fields translateText reads, and a
                       \* history flag (enableHistory), which no code reads
  registered,          \* TranslatorFactory.translators (registered types)
  instances,           \* TranslatorFactory.instances (type of each live instance)
  calls,               \* the translateText invocations in flight and where each stands
  returned,            \* the translateText invocation that settled last
  now,                 \* Date.now()
  intact,              \* results of the calls whose cache entry is still as they wrote it
  clears,              \* number of clearTranslationCache calls so far
  evicted,             \* what the last cacheTranslation call deleted from the cache
  \* batch tasks
  tasks,               \* the BatchTranslationTask objects and their loops
  batchTasks,          \* keys of ContentTranslationService.batchTasks
  cancelReturn,        \* what the last cancelBatchTranslation call returned
  \* HttpUtils.request
  http,                \* one request() invocation
  \* BaseTranslator and TranslatorFactory
  baseTranslator,      \* one adapter object (a BaseTranslator) and the calls on it
  factory,             \* a TranslatorFactory: registrations, instance map, objects, calls
  \* ContentTranslationService.batchTranslate
  batchTranslate       \* one batchTranslate() invocation

tvars == <<isInitialized, svcPc, translationCache, translationHistory, settings, registered, instances, calls, returned, now,
           intact, clears, evicted>>
bvars == <<tasks, batchTasks, cancelReturn>>
hvars == <<http>>
fvars == <<baseTranslator, factory>>
vars == <<isInitialized, svcPc, translationCache, translationHistory, settings, registered, instances, calls, returned, now,
          intact, clears, evicted, tasks, batchTasks, cancelReturn, http, baseTranslator, factory,
          batchTranslate>>

----------------------------------------------------------------------------
(* Bounds *)

MaxCalls == 2
MaxInstances == 2
MaxNow == 1
MaxCacheSize == 2
MaxHistorySize == 2
MaxClears == 1
MaxTasks == 1
MaxChunks == 2
MaxCancels == 2

----------------------------------------------------------------------------
(* Enum values and strings *)

AUTO == "auto"
OPENAI == "openai"
CUSTOM == "custom"
TranslatorTypes == {OPENAI, CUSTOM}
LanguageCodes == {AUTO, "en", "zh-CN", "ca"}

\* UTF-16 code units of the enum strings that enter the fingerprint
CharCodes(s) ==
  CASE s = "auto"   -> <<97, 117, 116, 111>>
    [] s = "en"     -> <<101, 110>>
    [] s = "zh-CN"  -> <<122, 104, 45, 67, 78>>
    [] s = "openai" -> <<111, 112, 101, 110, 97, 105>>
    [] s = "custom" -> <<99, 117, 115, 116, 111, 109>>
    [] OTHER        -> <<>>

SPACE == 32
BAR == 124

\* request texts: "", "Aa", "BB" (the last two have the same hash), " Aa"
Texts == { <<>>, <<65, 97>>, <<66, 66>>, <<32, 65, 97>> }
\* what the backend may answer: "X", " Y "
BackendOutputs == { <<88>>, <<32, 89, 32>> }

RECURSIVE TrimStart(_)
TrimStart(s) ==
  IF s # <<>> /\ Head(s) = SPACE THEN TrimStart(Tail(s)) ELSE s

RECURSIVE TrimEnd(_)
TrimEnd(s) ==
  IF s # <<>> /\ s[Len(s)] = SPACE THEN TrimEnd(SubSeq(s, 1, Len(s) - 1)) ELSE s

\* String.prototype.trim
Trim(s) == TrimEnd(TrimStart(s))

\* ValidationUtils.sanitizeHtml: '' for an empty input, otherwise the two
\* replace() calls followed by trim(); no text of Texts contains '<' or
\* whitespace followed by "on"/"javascript:", so neither pattern matches.
sanitizeHtml(html) == IF html = <<>> THEN <<>> ELSE Trim(html)

IsWordChar(c) == (c >= 48 /\ c <= 57) \/ (c >= 65 /\ c <= 90) \/ (c >= 97 /\ c <= 122) \/ c = 95

\* ValidationUtils.validateText
validateText(text) ==
  /\ text # <<>>
  /\ Trim(text) # <<>>
  /\ \E i \in 1..Len(Trim(text)) : IsWordChar(Trim(text)[i])

\* ValidationUtils.validateLanguageCode
validateLanguageCode(code) == code # "" /\ code \in LanguageCodes

\* BaseTranslator.preprocessText: trim and collapse whitespace runs (the texts
\* of Texts have no inner whitespace and no zero-width characters)
preprocessText(text) == Trim(text)

\* BaseTranslator.postprocessText
postprocessText(text) == Trim(text)

----------------------------------------------------------------------------
(* CryptoUtils.hash: 32-bit arithmetic on <<high 16 bits, low 16 bits>> *)

HashStep(h, c) ==
  LET lo == h[2] * 31 + c
      hi == h[1] * 31 + (lo \div 65536)
  IN <<hi % 65536, lo % 65536>>

RECURSIVE HashLoop(_, _)
HashLoop(h, s) == IF s = <<>> THEN h ELSE HashLoop(HashStep(h, Head(s)), Tail(s))

\* Math.abs of the signed 32-bit value; toString(16) is injective on it, so
\* the magnitude stands for the hexadecimal string
AbsInt32(h) ==
  IF h[1] < 32768 THEN h
  ELSE IF h[2] = 0 THEN <<65536 - h[1], 0>>
  ELSE <<65535 - h[1], 65536 - h[2]>>

hash(text) == IF text = <<>> THEN <<0, 0>> ELSE AbsInt32(HashLoop(<<0, 0>>, text))

\* ContentTranslationService.generateTextHash
generateTextHash(text, sourceLang, targetLang, translator) ==
  hash(text \o <<BAR>> \o CharCodes(sourceLang) \o <<BAR>> \o CharCodes(targetLang)
            \o <<BAR>> \o CharCodes(translator))

----------------------------------------------------------------------------
(* Values *)

Min(a, b) == IF a < b THEN a ELSE b

\* a thrown value: instanceOfError tells `error instanceof Error`
Thrown(isErr, msg) == [instanceOfError |-> isErr, message |-> msg]
NoThrown == [instanceOfError |-> FALSE, message |-> ""]

NoResponse == [status |-> "none"]

\* request.sourceLang || LanguageCode.AUTO
SourceLanguage(request) == IF request.sourceLang = "" THEN AUTO ELSE request.sourceLang

\* request.translator || config.defaultTranslator
TranslatorOf(request, config) ==
  IF request.translator = "" THEN config.defaultTranslator ELSE request.translator

\* the fingerprint translateText looks up and writes
Fingerprint(request, config) ==
  generateTextHash(request.text, SourceLanguage(request), request.targetLang,
                   TranslatorOf(request, config))

----------------------------------------------------------------------------
(* Map<string, TranslationCacheItem> as a sequence in insertion order *)

MapHas(m, k) == \E i \in 1..Len(m) : m[i].hash = k
MapIndex(m, k) == CHOOSE i \in 1..Len(m) : m[i].hash = k
MapGet(m, k) == m[MapIndex(m, k)]
\* Map.prototype.set: an existing key keeps its position
MapSet(m, k, item) ==
  IF MapHas(m, k) THEN [m EXCEPT ![MapIndex(m, k)] = item] ELSE Append(m, item)

\* the lookup keyed by the sanitized text instead of the request's text
getCachedTranslation_sanitized(cache, text, sourceLang, targetLang, translator) ==
  LET h == generateTextHash(sanitizeHtml(text), sourceLang, targetLang, translator)
  IN IF MapHas(cache, h) THEN MapGet(cache, h) ELSE [hash |-> <<>>]

\* ContentTranslationService.getCachedTranslation
getCachedTranslation(cache, text, sourceLang, targetLang, translator) ==
  LET h == generateTextHash(text, sourceLang, targetLang, translator)
  IN IF MapHas(cache, h) THEN MapGet(cache, h) ELSE [hash |-> <<>>]

\* the size limit applied before the insertion instead of after it
cacheTranslation_limitFirst(cache, originalText, response, translator, t) ==
  LET h == generateTextHash(originalText, response.sourceLang, response.targetLang, translator)
      cacheItem == [originalText |-> originalText,
                    translatedText |-> response.translatedText,
                    sourceLang |-> response.sourceLang,
                    targetLang |-> response.targetLang,
                    translator |-> translator,
                    timestamp |-> t,
                    hash |-> h]
  IN IF Len(cache) >= MaxCacheSize THEN cache ELSE MapSet(cache, h, cacheItem)

\* the insertion without the size limit
cacheTranslation_noEvict(cache, originalText, response, translator, t) ==
  LET h == generateTextHash(originalText, response.sourceLang, response.targetLang, translator)
      cacheItem == [originalText |-> originalText,
                    translatedText |-> response.translatedText,
                    sourceLang |-> response.sourceLang,
                    targetLang |-> response.targetLang,
                    translator |-> translator,
                    timestamp |-> t,
                    hash |-> h]
  IN MapSet(cache, h, cacheItem)

\* the size limit deleting the entry inserted last before the new one
cacheTranslation_evictNewest(cache, originalText, response, translator, t) ==
  LET h == generateTextHash(originalText, response.sourceLang, response.targetLang, translator)
      cacheItem == [originalText |-> originalText,
                    translatedText |-> response.translatedText,
                    sourceLang |-> response.sourceLang,
                    targetLang |-> response.targetLang,
                    translator |-> translator,
                    timestamp |-> t,
                    hash |-> h]
      set == MapSet(cache, h, cacheItem)
  IN IF Len(set) > MaxCacheSize
       THEN SubSeq(set, 1, Len(set) - 2) \o <<set[Len(set)]>>
       ELSE set

\* ContentTranslationService.cacheTranslation
cacheTranslation(cache, originalText, response, translator, t) ==
  LET h == generateTextHash(originalText, response.sourceLang, response.targetLang, translator)
      cacheItem == [originalText |-> originalText,
                    translatedText |-> response.translatedText,
                    sourceLang |-> response.sourceLang,
                    targetLang |-> response.targetLang,
                    translator |-> translator,
                    timestamp |-> t,
                    hash |-> h]
      set == MapSet(cache, h, cacheItem)
  IN IF Len(set) > MaxCacheSize THEN Tail(set) ELSE set

\* ContentTranslationService.createResponseFromCache
createResponseFromCache(cacheItem, t) ==
  [originalText |-> cacheItem.originalText,
   translatedText |-> cacheItem.translatedText,
   sourceLang |-> cacheItem.sourceLang,
   targetLang |-> cacheItem.targetLang,
   translator |-> cacheItem.translator,
   status |-> "success",
   timestamp |-> t,
   error |-> ""]

\* the history keeping its oldest entries when it is over the limit
addToHistory_keepOldest(history, response, translator) ==
  LET historyItem == [originalText |-> response.originalText,
                      translatedText |-> response.translatedText,
                      sourceLang |-> response.sourceLang,
                      targetLang |-> response.targetLang,
                      translator |-> translator,
                      timestamp |-> response.timestamp]
      pushed == Append(history, historyItem)
  IN IF Len(pushed) > MaxHistorySize THEN SubSeq(pushed, 1, MaxHistorySize) ELSE pushed

\* ContentTranslationService.addToHistory (the random id is left out)
addToHistory(history, response, translator) ==
  LET historyItem == [originalText |-> response.originalText,
                      translatedText |-> response.translatedText,
                      sourceLang |-> response.sourceLang,
                      targetLang |-> response.targetLang,
                      translator |-> translator,
                      timestamp |-> response.timestamp]
      pushed == Append(history, historyItem)
  IN IF Len(pushed) > MaxHistorySize
     THEN SubSeq(pushed, Len(pushed) - MaxHistorySize + 1, Len(pushed))
     ELSE pushed

----------------------------------------------------------------------------
(* BaseTranslator *)

\* getSupportedLanguages of the OpenAI adapter: its list has no LanguageCode.CA
SupportedLanguages == {AUTO, "zh-CN", "en"}

\* BaseTranslator.validateRequest: "" when the request passes, otherwise the
\* message of the Error it throws
validateRequest(request) ==
  IF request.text = <<>> \/ ~validateText(request.text)
    THEN "Invalid text for translation"
  ELSE IF request.sourceLang = "" \/ ~validateLanguageCode(request.sourceLang)
    THEN "Invalid source language code"
  ELSE IF ~validateLanguageCode(request.targetLang)
    THEN "Invalid target language code"
  ELSE IF request.sourceLang = request.targetLang
    THEN "Source and target languages cannot be the same"
  ELSE IF request.sourceLang \notin SupportedLanguages
    THEN "Source language is not supported"
  ELSE IF request.targetLang \notin SupportedLanguages
    THEN "Target language is not supported"
  ELSE ""

\* BaseTranslator.createTranslationError: a plain object literal that carries
\* the message; it is not an instance of Error
createTranslationError(error) == Thrown(FALSE, error.message)

\* the response BaseTranslator.translate returns on success
translateSuccess(request, translatedText, type, t) ==
  [originalText |-> request.text,
   translatedText |-> postprocessText(translatedText),
   sourceLang |-> request.sourceLang,
   targetLang |-> request.targetLang,
   translator |-> type,
   status |-> "success",
   timestamp |-> t,
   error |-> ""]

\* messages doTranslate of an adapter fails with
BackendErrors == {"OpenAI translation failed: Network error"}

----------------------------------------------------------------------------
(* ContentTranslationService.translateText *)

SourceLangs == {""}
TargetLangs == {"zh-CN"}
RequestTranslators == {""}
Requests == [text : Texts, sourceLang : SourceLangs, targetLang : TargetLangs,
             translator : RequestTranslators]

Calls == 1..MaxCalls
NoRequest == [text |-> <<>>, sourceLang |-> "", targetLang |-> "", translator |-> ""]
IdleCall == [pc |-> "idle", request |-> NoRequest, prior |-> {}]

\* nothing has settled yet
NoReturn == [settled |-> "pending", request |-> NoRequest, resp |-> NoResponse,
             thrown |-> NoThrown, stage |-> "", hit |-> FALSE, backend |-> 0, prior |-> {}]

\* the values Date.now() may return at the next step
Clock == now..Min(now + 1, MaxNow)

\* the catch block with the text handed to the backend as originalText
translateCatch_sanitized(request, config, error, t) ==
  [originalText |-> sanitizeHtml(request.text),
   translatedText |-> <<>>,
   sourceLang |-> SourceLanguage(request),
   targetLang |-> request.targetLang,
   translator |-> TranslatorOf(request, config),
   status |-> "error",
   timestamp |-> t,
   error |-> IF error.instanceOfError THEN error.message ELSE "Unknown error"]

\* the catch block of translateText
translateCatch(request, config, error, t) ==
  [originalText |-> request.text,
   translatedText |-> <<>>,
   sourceLang |-> SourceLanguage(request),
   targetLang |-> request.targetLang,
   translator |-> TranslatorOf(request, config),
   status |-> "error",
   timestamp |-> t,
   error |-> IF error.instanceOfError THEN error.message ELSE "Unknown error"]

\* the request handed to the backend instance (translationRequest)
translationRequest(request, config) ==
  [text |-> sanitizeHtml(request.text),
   sourceLang |-> SourceLanguage(request),
   targetLang |-> request.targetLang,
   translator |-> TranslatorOf(request, config)]

\* a call that ends in the catch block with the thrown value `error`, after
\* `backend` invocations of doTranslate
Caught(request, error, stage, backend, prior, t) ==
  [settled |-> "resolved", request |-> request,
   resp |-> translateCatch(request, settings, error, t),
   thrown |-> error, stage |-> stage, hit |-> FALSE, backend |-> backend, prior |-> prior]

\* a call that returns `response`
Returned(request, response, hit, backend, prior) ==
  [settled |-> "resolved", request |-> request, resp |-> response,
   thrown |-> NoThrown, stage |-> "", hit |-> hit, backend |-> backend, prior |-> prior]

\* (text, sourceLang, targetLang, backend) of a request
Tuple(request) ==
  <<request.text, SourceLanguage(request), request.targetLang,
    TranslatorOf(request, settings)>>

\* the results of earlier successful calls with the tuple of `request` whose
\* cache entry is still as they wrote it
Prior(request) ==
  {d.translatedText : d \in {e \in intact : Tuple(e.request) = Tuple(request)}}

\* translateText with single-flight: a call whose fingerprint has a call in
\* flight waits for that call instead of asking for an instance
TranslateStart_singleFlight(c, request) ==
  /\ calls[c].pc = "idle"
  /\ \A d \in Calls : d < c => calls[d].pc # "idle"
  /\ \E t \in Clock :
       LET translator == TranslatorOf(request, settings)
           cachedResult == getCachedTranslation(translationCache, request.text,
                             SourceLanguage(request), request.targetLang, translator)
           prior == IF settings.enableCache THEN Prior(request) ELSE {}
       IN /\ now' = t
          /\ IF ~isInitialized
               THEN /\ returned' = Caught(request, Thrown(TRUE, "Service not initialized"),
                                          "init", 0, {}, t)
                    /\ calls' = calls
             ELSE IF settings.enableCache /\ cachedResult.hash # <<>>
               THEN /\ returned' = Returned(request, createResponseFromCache(cachedResult, t),
                                            TRUE, 0, prior)
                    /\ calls' = calls
             ELSE IF settings.translators[translator] = "absent"
               THEN /\ returned' = Caught(request, Thrown(TRUE, "Translator not configured"),
                                          "config", 0, prior, t)
                    /\ calls' = calls
             ELSE /\ Len(instances) < MaxInstances
                  /\ calls' = [calls EXCEPT ![c] =
                                 [pc |-> IF \E d \in Calls :
                                               /\ calls[d].pc # "idle"
                                               /\ Fingerprint(calls[d].request, settings)
                                                    = Fingerprint(request, settings)
                                            THEN "joined" ELSE "creating",
                                  request |-> request, prior |-> prior]]
                  /\ returned' = returned
  /\ UNCHANGED <<isInitialized, svcPc, translationCache, translationHistory,
                 settings, registered, instances, intact, clears, evicted>>
  /\ UNCHANGED <<bvars, hvars, fvars, batchTranslate>>
\* translateText without the test of isInitialized
TranslateStart_unguarded(c, request) ==
  /\ calls[c].pc = "idle"
  /\ \A d \in Calls : d < c => calls[d].pc # "idle"
  /\ \E t \in Clock :
       LET translator == TranslatorOf(request, settings)
           cachedResult == getCachedTranslation(translationCache, request.text,
                             SourceLanguage(request), request.targetLang, translator)
           prior == IF settings.enableCache THEN Prior(request) ELSE {}
       IN /\ now' = t
          /\ IF settings.enableCache /\ cachedResult.hash # <<>>
               THEN /\ returned' = Returned(request, createResponseFromCache(cachedResult, t),
                                            TRUE, 0, prior)
                    /\ calls' = calls
             ELSE IF settings.translators[translator] = "absent"
               THEN /\ returned' = Caught(request, Thrown(TRUE, "Translator not configured"),
                                          "config", 0, prior, t)
                    /\ calls' = calls
             ELSE /\ Len(instances) < MaxInstances
                  /\ calls' = [calls EXCEPT ![c] =
                                 [pc |-> "creating", request |-> request, prior |-> prior]]
                  /\ returned' = returned
  /\ UNCHANGED <<isInitialized, svcPc, translationCache, translationHistory,
                 settings, registered, instances, intact, clears, evicted>>
  /\ UNCHANGED <<bvars, hvars, fvars, batchTranslate>>

\* translateText up to `await createTranslatorAsync(...)` or to its return
translateTextEnter(c, request) ==
  /\ calls[c].pc = "idle"
  /\ \A d \in Calls : d < c => calls[d].pc # "idle"
  /\ \E t \in Clock :
       LET translator == TranslatorOf(request, settings)
           cachedResult == getCachedTranslation(translationCache, request.text,
                             SourceLanguage(request), request.targetLang, translator)
           prior == IF settings.enableCache THEN Prior(request) ELSE {}
       IN /\ now' = t
          /\ IF ~isInitialized
               THEN /\ returned' = Caught(request, Thrown(TRUE, "Service not initialized"),
                                          "init", 0, {}, t)
                    /\ calls' = calls
             ELSE IF settings.enableCache /\ cachedResult.hash # <<>>
               THEN /\ returned' = Returned(request, createResponseFromCache(cachedResult, t),
                                            TRUE, 0, prior)
                    /\ calls' = calls
             ELSE IF settings.translators[translator] = "absent"
               THEN /\ returned' = Caught(request, Thrown(TRUE, "Translator not configured"),
                                          "config", 0, prior, t)
                    /\ calls' = calls
             ELSE /\ Len(instances) < MaxInstances
                  /\ calls' = [calls EXCEPT ![c] =
                                 [pc |-> "creating", request |-> request, prior |-> prior]]
                  /\ returned' = returned
  /\ UNCHANGED <<isInitialized, svcPc, translationCache, translationHistory,
                 settings, registered, instances, intact, clears, evicted>>
  /\ UNCHANGED <<bvars, hvars, fvars>>
\* createTranslatorAsync accepting whatever configuration it is given
createTranslatorAsync_unvalidated(type, config) ==
  IF type \notin registered THEN "Translator type is not registered"
  ELSE ""

\* a translateText call of a caller other than batchTranslate
TranslateStart(c, request) ==
  /\ translateTextEnter(c, request)
  /\ UNCHANGED batchTranslate

\* TranslatorFactory.createTranslatorAsync: "" when an instance of `type` is
\* created and initialized, otherwise the message of the Error it rethrows
\* (ValidationUtils.validateConfig returns an object, so `!validateConfig(..)`
\* never holds; initialize() fails when the adapter's validateConfig() does)
createTranslatorAsync(type, config) ==
  IF type \notin registered THEN "Translator type is not registered"
  ELSE IF config.translators[type] # "valid" THEN "Configuration validation failed"
  ELSE ""

\* createTranslatorAsync settles; on success translateText calls
\* translatorInstance.translate, which validates and starts doTranslate
CreateTranslatorDone(c) ==
  /\ calls[c].pc = "creating"
  /\ \E t \in Clock :
       LET request == calls[c].request
           translator == TranslatorOf(request, settings)
           failure == createTranslatorAsync(translator, settings)
           invalid == validateRequest(translationRequest(request, settings))
       IN /\ now' = t
          /\ instances' = IF failure = "" THEN Append(instances, translator) ELSE instances
          /\ IF failure # ""
               THEN /\ returned' = Caught(request, Thrown(TRUE, failure), "create", 0,
                                          calls[c].prior, t)
                    /\ calls' = [calls EXCEPT ![c] = IdleCall]
             ELSE IF invalid # ""
               THEN /\ returned' = Caught(request,
                                     createTranslationError(Thrown(TRUE, invalid)),
                                     "translate", 0, calls[c].prior, t)
                    /\ calls' = [calls EXCEPT ![c] = IdleCall]
             ELSE /\ calls' = [calls EXCEPT ![c].pc = "translating"]
                  /\ returned' = returned
  /\ UNCHANGED <<isInitialized, svcPc, translationCache, translationHistory,
                 settings, registered, intact, clears, evicted>>
  /\ UNCHANGED <<bvars, hvars, fvars, batchTranslate>>

\* the entries of `before` whose key `after` no longer holds
Dropped(before, after) ==
  {before[i] : i \in {j \in 1..Len(before) : ~MapHas(after, before[j].hash)}}

\* the hashes whose entry the insertion of an item under h replaces or evicts
Displaced(cache, h) ==
  {h} \cup (IF ~MapHas(cache, h) /\ Len(cache) + 1 > MaxCacheSize
             THEN {cache[1].hash} ELSE {})

\* doTranslate returns `output`: translate resolves, translateText writes the
\* cache and the history and returns the response
BackendSuccess(c, output) ==
  /\ calls[c].pc = "translating"
  /\ \E t \in Clock :
       LET request == calls[c].request
           translator == TranslatorOf(request, settings)
           response == translateSuccess(translationRequest(request, settings), output,
                                        translator, t)
           h == generateTextHash(request.text, response.sourceLang, response.targetLang,
                                 translator)
       IN /\ now' = t
          /\ translationCache' =
               IF settings.enableCache /\ response.status = "success"
                 THEN cacheTranslation(translationCache, request.text, response, translator, t)
                 ELSE translationCache
          /\ translationHistory' = addToHistory(translationHistory, response, translator)
          /\ returned' = Returned(request, response, FALSE, 1, calls[c].prior)
          /\ calls' = [calls EXCEPT ![c] = IdleCall]
          /\ intact' =
               IF settings.enableCache
                 THEN {d \in intact : Fingerprint(d.request, settings)
                                        \notin Displaced(translationCache, h)}
                      \cup {[request |-> request, translatedText |-> response.translatedText]}
                 ELSE intact
          /\ evicted' =
               IF settings.enableCache /\ response.status = "success"
                 THEN Dropped(translationCache,
                              cacheTranslation(translationCache, request.text, response,
                                               translator, t))
                 ELSE {}
  /\ UNCHANGED <<isInitialized, svcPc, settings, registered,
                 instances, clears>>
  /\ UNCHANGED <<bvars, hvars, fvars, batchTranslate>>
\* the catch path of translate with the error response appended to the history
BackendFailure_addingToHistory(c, message) ==
  /\ calls[c].pc = "translating"
  /\ \E t \in Clock :
       /\ now' = t
       /\ returned' = Caught(calls[c].request,
                             createTranslationError(Thrown(TRUE, message)), "translate", 1,
                             calls[c].prior, t)
       /\ translationHistory' =
            addToHistory(translationHistory,
                         translateCatch(calls[c].request, settings,
                                        createTranslationError(Thrown(TRUE, message)), t),
                         TranslatorOf(calls[c].request, settings))
       /\ calls' = [calls EXCEPT ![c] = IdleCall]
  /\ UNCHANGED <<isInitialized, svcPc, translationCache,
                 settings, registered, instances, intact, clears, evicted>>
  /\ UNCHANGED <<bvars, hvars, fvars, batchTranslate>>

\* doTranslate throws Error(message): translate rethrows the structured
\* error, which translateText catches
BackendFailure(c, message) ==
  /\ calls[c].pc = "translating"
  /\ \E t \in Clock :
       /\ now' = t
       /\ returned' = Caught(calls[c].request,
                             createTranslationError(Thrown(TRUE, message)), "translate", 1,
                             calls[c].prior, t)
       /\ calls' = [calls EXCEPT ![c] = IdleCall]
  /\ UNCHANGED <<isInitialized, svcPc, translationCache, translationHistory,
                 settings, registered, instances, intact, clears, evicted>>
  /\ UNCHANGED <<bvars, hvars, fvars, batchTranslate>>

----------------------------------------------------------------------------
(* translateText calls one after the other: a call is taken as one step from *)
(* its cache lookup to its return, so that long sequences of insertions and  *)
(* hits are reached                                                          *)

\* texts with three different cache keys ("Aa" and "BB" share one)
CacheTexts == { <<65, 97>>, <<66, 66>>, <<32, 65, 97>>, <<66>> }
CacheRequests == [text : CacheTexts, sourceLang : SourceLangs, targetLang : TargetLangs,
                  translator : RequestTranslators]

\* a call that finds its entry in the cache
TranslateHit(request) ==
  /\ isInitialized
  /\ settings.enableCache
  /\ getCachedTranslation(translationCache, request.text, SourceLanguage(request),
                          request.targetLang, TranslatorOf(request, settings)).hash # <<>>
  /\ \A c \in Calls : calls[c].pc = "idle"
  /\ TranslateStart(1, request)

\* a call that finds no entry, gets its instance and the backend's `output`,
\* writes the cache and the history and returns (instances beyond
\* MaxInstances are not recorded)
TranslateMiss(request, output) ==
  /\ isInitialized
  /\ \A c \in Calls : calls[c].pc = "idle"
  /\ LET translator == TranslatorOf(request, settings)
     IN /\ settings.enableCache =>
             getCachedTranslation(translationCache, request.text, SourceLanguage(request),
                                  request.targetLang, translator).hash = <<>>
        /\ settings.translators[translator] # "absent"
        /\ createTranslatorAsync(translator, settings) = ""
        /\ validateRequest(translationRequest(request, settings)) = ""
        /\ instances' = IF Len(instances) < MaxInstances THEN Append(instances, translator)
                        ELSE instances
        /\ \E t \in Clock :
             LET response == translateSuccess(translationRequest(request, settings), output,
                                              translator, t)
                 h == generateTextHash(request.text, response.sourceLang,
                                       response.targetLang, translator)
                 written == cacheTranslation(translationCache, request.text, response,
                                             translator, t)
             IN /\ now' = t
                /\ translationCache' = IF settings.enableCache THEN written
                                       ELSE translationCache
                /\ evicted' = IF settings.enableCache THEN Dropped(translationCache, written)
                              ELSE {}
                /\ translationHistory' = addToHistory(translationHistory, response, translator)
                /\ returned' = Returned(request, response, FALSE, 1,
                                        IF settings.enableCache THEN Prior(request) ELSE {})
                /\ intact' =
                     IF settings.enableCache
                       THEN {d \in intact : Fingerprint(d.request, settings)
                                              \notin Displaced(translationCache, h)}
                            \cup {[request |-> request,
                                   translatedText |-> response.translatedText]}
                       ELSE intact
  /\ UNCHANGED <<isInitialized, svcPc, settings, registered, calls, clears>>
  /\ UNCHANGED <<bvars, hvars, fvars, batchTranslate>>

----------------------------------------------------------------------------
(* ContentTranslationService.initialize / destroy / clearTranslationCache.   *)
(* The plugin constructs the service in onload, ServiceManager calls         *)
(* initialize() once and destroy() once at unload; the clear-cache command   *)
(* may run in between.  The two JSON files in the vault are written by       *)
(* destroy() and clearTranslationCache() and read by initialize(); they are  *)
(* absent on the first run, and what is written to them is not read again    *)
(* by this service object, so the writes have no effect on the state.        *)

\* what loadTranslationHistory / loadTranslationCache find in the vault
SavedHistory == <<>>
SavedCache == <<>>

\* initialize() is called: loadTranslationHistory starts reading
InitializeStart ==
  /\ svcPc = "new"
  /\ svcPc' = "init_history"
  /\ UNCHANGED <<isInitialized, translationCache, translationHistory,
                 settings, registered, instances, calls, returned, now,
                 intact, clears, evicted>>
  /\ UNCHANGED <<bvars, hvars, fvars, batchTranslate>>

\* loadTranslationHistory: the file is read and parsed (a missing file gives [])
InitLoadHistory ==
  /\ svcPc = "init_history"
  /\ translationHistory' = SavedHistory
  /\ svcPc' = "init_cache"
  /\ UNCHANGED <<isInitialized, translationCache, settings,
                 registered, instances, calls, returned, now, intact, clears, evicted>>
  /\ UNCHANGED <<bvars, hvars, fvars, batchTranslate>>

\* loadTranslationCache, then isInitialized = true
InitLoadCache ==
  /\ svcPc = "init_cache"
  /\ translationCache' = SavedCache
  /\ isInitialized' = TRUE
  /\ intact' = {}
  /\ svcPc' = "running"
  /\ UNCHANGED <<translationHistory, settings, registered,
                 instances, calls, returned, now, clears, evicted>>
  /\ UNCHANGED <<bvars, hvars, fvars, batchTranslate>>

\* destroy() is called: saveTranslationHistory and saveTranslationCache run
DestroyStart ==
  /\ svcPc = "running"
  /\ svcPc' = "destroy_save"
  /\ UNCHANGED <<isInitialized, translationCache, translationHistory,
                 settings, registered, instances, calls, returned, now,
                 intact, clears, evicted>>
  /\ UNCHANGED <<bvars, hvars, fvars, batchTranslate>>

\* the rest of destroy(): the cache, the history and the task map are cleared
DestroyClear ==
  /\ svcPc = "destroy_save"
  /\ translationCache' = <<>>
  /\ translationHistory' = <<>>
  /\ batchTasks' = {}
  /\ isInitialized' = FALSE
  /\ intact' = {}
  /\ svcPc' = "destroyed"
  /\ UNCHANGED <<settings, registered, instances, calls,
                 returned, now, clears, evicted>>
  /\ UNCHANGED <<tasks, cancelReturn, hvars, fvars, batchTranslate>>

\* clearTranslationCache(): the map is cleared before the first await
ClearCache ==
  /\ svcPc = "running"
  /\ clears < MaxClears
  /\ clears' = clears + 1
  /\ translationCache' = <<>>
  /\ intact' = {}
  /\ UNCHANGED <<isInitialized, svcPc, translationHistory, settings,
                 registered, instances, calls, returned, now, evicted>>
  /\ UNCHANGED <<bvars, hvars, fvars, batchTranslate>>

----------------------------------------------------------------------------
(* ContentTranslationService.batchTranslate: the loop awaits translateText   *)
(* for one request after the other.  `started` counts its translateText      *)
(* calls and `settled` lists how each of them ended.                         *)

\* requests.length of the longest batch
MaxRequests == 2

BatchTranslateIdle ==
  [pc |-> "idle", requests |-> <<>>, results |-> <<>>, started |-> 0, settled |-> <<>>]

\* the loop body after the await, with error responses left out of results
batchPush_skippingErrors(results, response) ==
  IF response.status = "error" THEN results ELSE Append(results, response)

\* results.push(response)
batchPush(results, response) == Append(results, response)

\* the head of the for-of loop up to `await this.translateText(request)`, or
\* `return results` when the requests are exhausted
batchLoop(b) ==
  IF Len(b.settled) < Len(b.requests)
    THEN /\ translateTextEnter(1, b.requests[Len(b.settled) + 1])
         /\ batchTranslate' = [b EXCEPT !.pc = "awaiting", !.started = @ + 1]
    ELSE /\ batchTranslate' = [b EXCEPT !.pc = "returned"]
         /\ UNCHANGED <<tvars, bvars, hvars, fvars>>

\* batchTranslate(requests) is called
BatchTranslate(requests) ==
  /\ batchTranslate.pc = "idle"
  /\ \A c \in Calls : calls[c].pc = "idle"
  /\ batchLoop([batchTranslate EXCEPT !.requests = requests])

\* translateText has resolved: the response is pushed and the loop goes on
BatchTranslateResumed ==
  /\ batchTranslate.pc = "awaiting"
  /\ \A c \in Calls : calls[c].pc = "idle"
  /\ batchLoop([batchTranslate EXCEPT !.results = batchPush(@, returned.resp),
                                      !.settled = Append(@, returned)])

----------------------------------------------------------------------------
(* Batch tasks: startBatchTranslation, executeBatchTranslation,              *)
(* cancelBatchTranslation                                                    *)

\* chunk texts: "" (rejected by validateRequest) and "Aa"
BatchTexts == { <<>>, <<65, 97>> }

RECURSIVE SeqsUpTo(_, _)
SeqsUpTo(S, n) ==
  IF n = 0 THEN {<<>>}
  ELSE LET shorter == SeqsUpTo(S, n - 1)
       IN shorter \cup {Append(q, x) : q \in {r \in shorter : Len(r) = n - 1}, x \in S}

BatchInputs == SeqsUpTo(BatchTexts, MaxChunks)

TaskIds == 1..MaxTasks

\* the request executeBatchTranslation builds for chunk i
chunkRequest(task, i) ==
  [text |-> task.texts[i], sourceLang |-> task.from, targetLang |-> task.to,
   translator |-> task.translator]

\* the loop condition and the cancellation check at the head of the loop body
loopContinues_ignoringStatus(task) == task.i < Len(task.texts)
loopContinues(task) == task.i < Len(task.texts) /\ task.status = "running"

\* the status assigned when the loop is left
statusAfterLoop_failedOnErrors(task) ==
  IF task.errors # <<>> THEN "failed" ELSE "completed"
statusAfterLoop(task) == "completed"

\* ((i + 1) / task.texts.length) * 100, kept as <<numerator, denominator>> of
\* the fraction that is multiplied by 100
progressAfter_index(task) == <<task.i, Len(task.texts)>>
progressAfter(task) == <<task.i + 1, Len(task.texts)>>

\* the catch block of the loop body without the placeholder result
chunkCatch_noResult(task, error, t) ==
  [task EXCEPT
     !.errors = Append(@, IF error.instanceOfError THEN error.message ELSE "Unknown error"),
     !.failed = @ \cup {task.i + 1}]

\* the catch block of the loop body: the message and an error result are pushed
chunkCatch(task, error, t) ==
  [task EXCEPT
     !.errors = Append(@, IF error.instanceOfError THEN error.message ELSE "Unknown error"),
     !.results = Append(@,
        [originalText |-> task.texts[task.i + 1],
         translatedText |-> <<>>,
         sourceLang |-> task.from,
         targetLang |-> task.to,
         translator |-> task.translator,
         status |-> "error",
         timestamp |-> t,
         error |-> IF error.instanceOfError THEN error.message ELSE "Unknown error"]),
     !.failed = @ \cup {task.i + 1}]

\* the try block after `await translatorInstance.translate(request)` returned
chunkReturned(task, response) ==
  [task EXCEPT
     !.results = Append(@, response),
     !.errors = IF response.status = "error"
                  THEN Append(@, IF response.error # "" THEN response.error
                                 ELSE "Unknown error")
                  ELSE @]

\* from the head of the loop to the next await or to the end of the function:
\* either the translate call for chunk i+1 starts, or the loop is left and
\* the status is assigned
\* `creates` counts the task's createTranslatorAsync calls, `instance` is the
\* position in the factory's instance list of the object bound to the local
\* `translatorInstance`, and `via` lists, per started chunk, the instance whose
\* translate() was called
loopHead_parallel(task) ==
  IF loopContinues(task)
    THEN [task EXCEPT !.pc = "translating", !.started = Len(task.texts),
                      !.via = Append(@, task.instance)]
    ELSE [task EXCEPT !.pc = "done", !.status = statusAfterLoop(task)]
loopHead_recreating(task) ==
  IF loopContinues(task)
    THEN [task EXCEPT !.pc = "translating", !.started = @ + 1,
                      !.creates = @ + 1,
                      !.via = Append(@, task.instance + task.started)]
    ELSE [task EXCEPT !.pc = "done", !.status = statusAfterLoop(task)]
loopHead(task) ==
  IF loopContinues(task)
    THEN [task EXCEPT !.pc = "translating", !.started = @ + 1,
                      !.via = Append(@, task.instance)]
    ELSE [task EXCEPT !.pc = "done", !.status = statusAfterLoop(task)]

\* startBatchTranslation: the task is stored and executeBatchTranslation runs
\* up to `await createTranslatorAsync(...)` or throws 'not configured'
StartBatch(texts, translator) ==
  /\ Len(tasks) < MaxTasks
  /\ LET configured == settings.translators[translator] # "absent"
         task == [texts |-> texts, from |-> AUTO, to |-> "zh-CN",
                  translator |-> translator,
                  progress |-> <<0, 1>>, status |-> "running",
                  results |-> <<>>, errors |-> <<>>,
                  pc |-> IF configured THEN "creating" ELSE "rejected",
                  rejection |-> IF configured THEN ""
                                ELSE "Translator not configured",
                  i |-> 0,
                  started |-> 0, failed |-> {}, created |-> FALSE,
                  creates |-> IF configured THEN 1 ELSE 0,
                  instance |-> 0, via |-> <<>>,
                  cancels |-> 0, startedAtCancel |-> -1]
     IN /\ configured => Len(instances) < MaxInstances
        /\ tasks' = Append(tasks, task)
        /\ batchTasks' = batchTasks \cup {Len(tasks) + 1}
  /\ UNCHANGED <<cancelReturn, tvars, hvars, fvars, batchTranslate>>

\* createTranslatorAsync settles: the function throws, or the loop starts
BatchCreateDone(k) ==
  /\ k \in DOMAIN tasks
  /\ tasks[k].pc = "creating"
  /\ LET failure == createTranslatorAsync(tasks[k].translator, settings)
     IN /\ instances' = IF failure = "" THEN Append(instances, tasks[k].translator)
                        ELSE instances
        /\ tasks' = [tasks EXCEPT ![k] =
             IF failure # ""
               THEN [tasks[k] EXCEPT !.pc = "rejected", !.rejection = failure]
               ELSE loopHead([tasks[k] EXCEPT !.created = TRUE,
                                              !.instance = Len(instances) + 1])]
  /\ UNCHANGED <<batchTasks, cancelReturn, hvars, fvars, batchTranslate>>
  /\ UNCHANGED <<isInitialized, svcPc, translationCache, translationHistory, settings,
                 registered, calls, returned, now, intact, clears, evicted>>

\* the step after a chunk was recorded: progress, i++ and the loop head
chunkRecorded(task, recorded) ==
  loopHead([recorded EXCEPT !.progress = progressAfter(task), !.i = @ + 1])

\* the translate call of the current chunk returns a response built from `output`
BatchChunkReturned(k, output) ==
  /\ k \in DOMAIN tasks
  /\ tasks[k].pc = "translating"
  /\ validateRequest(chunkRequest(tasks[k], tasks[k].i + 1)) = ""
  /\ \E t \in Clock :
       LET task == tasks[k]
           response == translateSuccess(chunkRequest(task, task.i + 1), output,
                                        task.translator, t)
       IN /\ now' = t
          /\ tasks' = [tasks EXCEPT ![k] = chunkRecorded(task, chunkReturned(task, response))]
  /\ UNCHANGED <<batchTasks, cancelReturn, hvars, fvars, batchTranslate>>
  /\ UNCHANGED <<isInitialized, svcPc, translationCache, translationHistory, settings,
                 registered, instances, calls, returned, intact, clears, evicted>>

\* the translate call of the current chunk throws: validateRequest rejected
\* the chunk, or doTranslate threw Error(message)
BatchChunkThrew(k, message) ==
  /\ k \in DOMAIN tasks
  /\ tasks[k].pc = "translating"
  /\ \E t \in Clock :
       LET task == tasks[k]
           invalid == validateRequest(chunkRequest(task, task.i + 1))
           error == createTranslationError(
                      Thrown(TRUE, IF invalid # "" THEN invalid ELSE message))
       IN /\ now' = t
          /\ tasks' = [tasks EXCEPT ![k] = chunkRecorded(task, chunkCatch(task, error, t))]
  /\ UNCHANGED <<batchTasks, cancelReturn, hvars, fvars, batchTranslate>>
  /\ UNCHANGED <<isInitialized, svcPc, translationCache, translationHistory, settings,
                 registered, instances, calls, returned, intact, clears, evicted>>

\* the .catch handler startBatchTranslation attached to executeBatchTranslation
BatchRejected(k) ==
  /\ k \in DOMAIN tasks
  /\ tasks[k].pc = "rejected"
  /\ tasks' = [tasks EXCEPT ![k] =
       [tasks[k] EXCEPT !.pc = "done", !.status = "failed",
                        !.errors = Append(@, tasks[k].rejection)]]
  /\ UNCHANGED <<batchTasks, cancelReturn, tvars, hvars, fvars, batchTranslate>>

\* cancelBatchTranslation(taskId)
CancelBatch(k) ==
  /\ k \in DOMAIN tasks
  /\ tasks[k].cancels < MaxCancels
  /\ IF k \notin batchTasks \/ tasks[k].status = "completed"
       THEN /\ cancelReturn' = "false"
            /\ tasks' = tasks
       ELSE /\ cancelReturn' = "true"
            /\ tasks' = [tasks EXCEPT ![k] =
                 [tasks[k] EXCEPT !.status = "failed",
                    !.errors = Append(@, "Translation cancelled by user"),
                    !.cancels = @ + 1,
                    !.startedAtCancel =
                       IF @ = -1 /\ tasks[k].status = "running" THEN tasks[k].started ELSE @]]
  /\ UNCHANGED <<batchTasks, tvars, hvars, fvars, batchTranslate>>

----------------------------------------------------------------------------
(* HttpUtils.request: the retry loop, its per-attempt timers and shouldRetry *)

defaultRetryDelay == 1000

\* config.retries of the request
MaxRetries == 2
Retries == 0..MaxRetries

\* statuses the endpoint answers with
Statuses == {200, 401, 503}

\* validateStatus = (status) => status >= 200 && status < 300
validateStatus(status) == status >= 200 /\ status < 300

\* What fetch() rejects with is a TypeError whose message the engine chooses:
\* Chromium reports a refused connection as 'Failed to fetch' and WebKit as
\* 'Load failed'; Chromium reports arguments it refuses (a malformed URL, a
\* header value it cannot encode) as "Failed to execute 'fetch' on 'Window'".
FetchTypeErrors ==
  { "Failed to fetch", "Load failed", "Failed to execute 'fetch' on 'Window'" }

\* error.message.includes('fetch')
includesFetch(message) ==
  message \in { "Failed to fetch", "Failed to execute 'fetch' on 'Window'" }

\* what made the attempt fail; shouldRetry does not see it
CauseOf(message) ==
  IF message = "Failed to execute 'fetch' on 'Window'" THEN "request" ELSE "network"

HttpFailure(name, message, isHttpError, status, cause) ==
  [name |-> name, message |-> message, isHttpError |-> isHttpError,
   status |-> status, cause |-> cause]

NoHttpError == HttpFailure("", "", FALSE, 0, "")

HttpError(status) == HttpFailure("HttpError", "Request failed with status", TRUE, status, "status")

shouldRetry(error) ==
  IF error.name = "TypeError" /\ includesFetch(error.message) THEN TRUE
  ELSE IF error.name = "AbortError" THEN TRUE
  ELSE IF error.isHttpError THEN (IF error.status # 0 THEN error.status >= 500 ELSE FALSE)
  ELSE FALSE

RECURSIVE Pow2(_)
Pow2(n) == IF n = 0 THEN 1 ELSE 2 * Pow2(n - 1)

\* config.retryDelay of the request: the default or a caller's value
RetryDelays == {defaultRetryDelay, 250}

HttpIdle ==
  [pc |-> "off", retries |-> 0, retryDelay |-> defaultRetryDelay, attempt |-> 0,
   timers |-> {}, stale |-> {}, outcomes |-> <<>>,
   lastError |-> NoHttpError, waited |-> <<>>, response |-> 0, thrown |-> NoHttpError]

\* request(url, {retries, retryDelay}): the loop starts attempt 0 and arms
\* its timer
HttpRequest(retries) ==
  /\ http.pc = "off"
  /\ \E retryDelay \in RetryDelays :
       http' = [http EXCEPT !.pc = "fetching", !.retries = retries,
                            !.retryDelay = retryDelay, !.attempt = 0,
                            !.timers = {0}]
  /\ UNCHANGED <<tvars, bvars, fvars, batchTranslate>>

\* the catch block of the loop with the same delay before every retry
requestCatch_constantDelay(h, error, armed) ==
  LET failed == [h EXCEPT !.lastError = error, !.timers = armed,
                          !.outcomes = Append(@, error)]
  IN IF h.attempt = h.retries THEN [failed EXCEPT !.pc = "thrown", !.thrown = error]
     ELSE IF shouldRetry(error)
          THEN [failed EXCEPT !.pc = "delaying",
                              !.waited = Append(@, h.retryDelay)]
          ELSE [failed EXCEPT !.pc = "thrown", !.thrown = error]

\* the catch block of the loop; armed is the set of timers still pending.
\* `throw lastError` after the loop and `throw error` in the block both end
\* the call with pc "thrown"
requestCatch(h, error, armed) ==
  LET failed == [h EXCEPT !.lastError = error, !.timers = armed,
                          !.outcomes = Append(@, error)]
  IN IF h.attempt = h.retries THEN [failed EXCEPT !.pc = "thrown", !.thrown = failed.lastError]
     ELSE IF shouldRetry(error)
          THEN [failed EXCEPT !.pc = "delaying",
                              !.waited = Append(@, h.retryDelay * Pow2(h.attempt))]
          ELSE [failed EXCEPT !.pc = "thrown", !.thrown = error]

\* fetch resolved: the attempt's timer is cleared, the body is read, the
\* status is validated
FetchResolved(status, parsed) ==
  /\ http.pc = "fetching"
  /\ LET armed == http.timers \ {http.attempt}
     IN http' =
          IF ~parsed
          THEN requestCatch(http, HttpFailure("SyntaxError", "Unexpected token", FALSE, 0, "parse"),
                            armed)
          ELSE IF ~validateStatus(status)
          THEN requestCatch(http, HttpError(status), armed)
          ELSE [http EXCEPT !.pc = "returned", !.response = status, !.timers = armed,
                            !.outcomes = Append(@, NoHttpError)]
  /\ UNCHANGED <<tvars, bvars, fvars, batchTranslate>>

\* fetch rejected: the attempt's timer stays armed
FetchRejected(message) ==
  /\ http.pc = "fetching"
  /\ http' = requestCatch(http, HttpFailure("TypeError", message, FALSE, 0, CauseOf(message)),
                          http.timers)
  /\ UNCHANGED <<tvars, bvars, fvars, batchTranslate>>

\* the timers of all attempts aborting one controller shared by the attempts
\* (`stale` holds the attempts whose timer fired while a later attempt was in
\* flight)
TimerFires_sharedController(a) ==
  /\ a \in http.timers
  /\ http' =
       IF http.pc = "fetching"
       THEN requestCatch(http, HttpFailure("AbortError", "The user aborted a request", FALSE, 0,
                                           "timeout"),
                         http.timers \ {a})
       ELSE [http EXCEPT !.timers = @ \ {a}]
  /\ UNCHANGED <<tvars, bvars, fvars, batchTranslate>>

\* setTimeout(() => controller.abort(), timeout) of attempt a fires: it aborts
\* the fetch of that attempt if it is still in flight
TimerFires(a) ==
  /\ a \in http.timers
  /\ http' =
       IF http.pc = "fetching" /\ http.attempt = a
       THEN requestCatch(http, HttpFailure("AbortError", "The user aborted a request", FALSE, 0,
                                           "timeout"),
                         http.timers \ {a})
       ELSE [http EXCEPT !.timers = @ \ {a},
                         !.stale = IF http.pc = "fetching" THEN @ \cup {a} ELSE @]
  /\ UNCHANGED <<tvars, bvars, fvars, batchTranslate>>

\* await this.delay(...) is over: continue with the next attempt
DelayElapsed ==
  /\ http.pc = "delaying"
  /\ http' = [http EXCEPT !.pc = "fetching", !.attempt = @ + 1,
                          !.timers = @ \cup {http.attempt + 1}]
  /\ UNCHANGED <<tvars, bvars, fvars, batchTranslate>>

----------------------------------------------------------------------------
(* BaseTranslator as an object: initialize, translate, updateConfig and      *)
(* destroy of one adapter instance (an OpenAITranslator).  The two hooks     *)
(* doInitialize and doDestroy are empty in BaseTranslator and may be         *)
(* overridden by a subclass, so each of them may resolve or throw.           *)

\* doTranslate invocations counted up to this number
MaxAdapterCalls == 2

\* TranslatorConfig: the field the adapter's validateConfig and updateConfig
\* read; "" is a missing or empty apiKey
TranslatorConfigs == [apiKey : {"", "sk-1", "sk-2"}]
\* initialize() without an argument
NoConfig == [apiKey |-> "undefined"]
\* Partial<TranslatorConfig> of updateConfig: with or without an apiKey
PartialConfigs == {[apiKey |-> "sk-2"], [apiKey |-> "undefined"]}

\* OpenAITranslator.validateConfig on this.config (model, baseURL,
\* temperature and maxTokens have defaults that pass)
adapterValidateConfig(config) == config.apiKey # ""

\* requests made on the adapter object: text "" or "Aa"; "xx" is no
\* LanguageCode, "ca" is one the adapter does not list, "" is a missing
\* sourceLang
TranslatorRequests ==
  [text : {<<>>, <<65, 97>>}, sourceLang : {"", "en", "ca"},
   targetLang : {"zh-CN", "en", "ca", "xx"}, translator : {OPENAI}]

\* what doTranslate of the OpenAI adapter throws: the messages of
\* callOpenAIAPI's catch block, a rejected fetch, and an error object of the
\* API whose text the server chooses
AdapterErrors ==
  { "OpenAI translation failed: Invalid OpenAI API key. Please check your configuration.",
    "OpenAI translation failed: OpenAI API quota exceeded. Please check your usage limits.",
    "OpenAI translation failed: Network error: Unable to connect to OpenAI API.",
    "OpenAI translation failed: Failed to fetch",
    "OpenAI translation failed: OpenAI API Error: rate limit reached for this API key",
    "OpenAI translation failed: OpenAI API Error: quota of this language model used up" }

\* the patterns of getErrorCode that occur in a message (String.includes is
\* case-sensitive: 'Network error' does not include 'network')
PatternsIn(message) ==
  CASE message = "OpenAI translation failed: Invalid OpenAI API key. Please check your configuration."
         -> {"API key"}
    [] message = "OpenAI translation failed: OpenAI API quota exceeded. Please check your usage limits."
         -> {"quota"}
    [] message = "OpenAI translation failed: Network error: Unable to connect to OpenAI API."
         -> {}
    [] message = "OpenAI translation failed: Failed to fetch"
         -> {"fetch"}
    [] message = "OpenAI translation failed: OpenAI API Error: rate limit reached for this API key"
         -> {"rate limit", "API key"}
    [] message = "OpenAI translation failed: OpenAI API Error: quota of this language model used up"
         -> {"quota", "language"}
    [] message \in {"Invalid source language code", "Invalid target language code",
                    "Source and target languages cannot be the same",
                    "Source language is not supported",
                    "Target language is not supported"}
         -> {"language"}
    [] OTHER -> {}

\* error.message.includes(pattern)
includes(message, pattern) == pattern \in PatternsIn(message)

\* getErrorCode with the language test first
getErrorCode_languageFirst(error) ==
  IF includes(error.message, "language") THEN "UNSUPPORTED_LANGUAGE"
  ELSE IF includes(error.message, "API key") THEN "INVALID_API_KEY"
  ELSE IF includes(error.message, "network") \/ includes(error.message, "fetch")
    THEN "NETWORK_ERROR"
  ELSE IF includes(error.message, "rate limit") THEN "RATE_LIMIT_EXCEEDED"
  ELSE IF includes(error.message, "quota") THEN "QUOTA_EXCEEDED"
  ELSE "UNKNOWN_ERROR"

\* BaseTranslator.getErrorCode
getErrorCode(error) ==
  IF includes(error.message, "API key") THEN "INVALID_API_KEY"
  ELSE IF includes(error.message, "network") \/ includes(error.message, "fetch")
    THEN "NETWORK_ERROR"
  ELSE IF includes(error.message, "rate limit") THEN "RATE_LIMIT_EXCEEDED"
  ELSE IF includes(error.message, "quota") THEN "QUOTA_EXCEEDED"
  ELSE IF includes(error.message, "language") THEN "UNSUPPORTED_LANGUAGE"
  ELSE "UNKNOWN_ERROR"

\* the object createTranslationError builds, with its code and details
translationError(error, request, type) ==
  [message |-> error.message,
   code |-> getErrorCode(error),
   details |-> [translatorType |-> type,
                originalText |-> request.text,
                sourceLanguage |-> request.sourceLang,
                targetLanguage |-> request.targetLang]]

NoTranslationError ==
  [message |-> "", code |-> "",
   details |-> [translatorType |-> "", originalText |-> <<>>,
                sourceLanguage |-> "", targetLanguage |-> ""]]

NoSuccess == translateSuccess(NoRequest, <<>>, "", 0)

\* how a translate() call ended: what it returned or threw, the number of
\* doTranslate calls it made, and whether the object had been initialized
\* since its construction or its last completed destroy() when it was called
Settled(outcome, request, response, error, adapterCalls, ready) ==
  [outcome |-> outcome, request |-> request, response |-> response, error |-> error,
   adapterCalls |-> adapterCalls, ready |-> ready]

\* how an initialize() call ended and what isInitialized was when it started
InitializeOutcome(outcome, message, before) ==
  [outcome |-> outcome, message |-> message, before |-> before]

\* the object after its constructor; `ready` tells that an initialize() has
\* succeeded and no destroy() has returned since
TranslatorNew ==
  [config |-> [apiKey |-> "sk-1"], isInitialized |-> FALSE,
   initialize |-> "idle", destroy |-> "idle", translate |-> "idle",
   request |-> NoRequest, doTranslateCalls |-> 0, ready |-> FALSE,
   initialized |-> InitializeOutcome("none", "", FALSE),
   settled |-> Settled("none", NoRequest, NoSuccess, NoTranslationError, 0, FALSE)]

\* initialize(config) up to `await this.doInitialize()`, or to the throw when
\* validateConfig() refuses the configuration
initializeEnter(o, config) ==
  LET assigned == IF config # NoConfig THEN [o EXCEPT !.config = config] ELSE o
  IN IF ~adapterValidateConfig(assigned.config)
       THEN [assigned EXCEPT
               !.initialized = InitializeOutcome("threw", "Configuration validation failed",
                                           o.isInitialized)]
       ELSE [assigned EXCEPT
               !.initialize = "doInitialize",
               !.initialized = InitializeOutcome("pending", "", o.isInitialized)]

\* the error translate() throws from its catch block
translateThrew(o, request, message, adapterCalls, ready) ==
  [o EXCEPT !.translate = "idle", !.request = NoRequest,
            !.settled = Settled("threw", request, NoSuccess,
                                translationError(Thrown(TRUE, message), request, OPENAI),
                                adapterCalls, ready)]

\* translate(request) without the test of isInitialized
translateEnter_unguarded(o, request) ==
  IF validateRequest(request) # ""
    THEN translateThrew(o, request, validateRequest(request), 0, o.ready)
  ELSE [o EXCEPT !.translate = "doTranslate", !.request = request,
                 !.doTranslateCalls = @ + 1,
                 !.settled = Settled("pending", request, NoSuccess, NoTranslationError,
                                     1, o.ready)]

\* translate(request) calling doTranslate before it validates the request
translateEnter_validatingLate(o, request) ==
  IF ~o.isInitialized
    THEN translateThrew(o, request, "Translator not initialized", 0, o.ready)
  ELSE [o EXCEPT !.translate = "doTranslate", !.request = request,
                 !.doTranslateCalls = @ + 1,
                 !.settled = Settled("pending", request, NoSuccess, NoTranslationError,
                                     1, o.ready)]

\* translate(request) up to `await this.doTranslate(...)`, or to the throw of
\* the initialization test or of validateRequest
translateEnter(o, request) ==
  IF ~o.isInitialized
    THEN translateThrew(o, request, "Translator not initialized", 0, o.ready)
  ELSE IF validateRequest(request) # ""
    THEN translateThrew(o, request, validateRequest(request), 0, o.ready)
  ELSE [o EXCEPT !.translate = "doTranslate", !.request = request,
                 !.doTranslateCalls = @ + 1,
                 !.settled = Settled("pending", request, NoSuccess, NoTranslationError,
                                     1, o.ready)]

TranslatorInitialize(config) ==
  /\ baseTranslator.initialize = "idle"
  /\ baseTranslator' = initializeEnter(baseTranslator, config)
  /\ UNCHANGED <<tvars, bvars, hvars, factory, batchTranslate>>

\* doInitialize resolved: the flag is set and initialize resolves
TranslatorDoInitializeResolved ==
  /\ baseTranslator.initialize = "doInitialize"
  /\ baseTranslator' =
       [baseTranslator EXCEPT
          !.initialize = "idle", !.isInitialized = TRUE, !.ready = TRUE,
          !.initialized = InitializeOutcome("resolved", "", baseTranslator.initialized.before)]
  /\ UNCHANGED <<tvars, bvars, hvars, factory, batchTranslate>>

\* doInitialize threw: the catch block logs and rethrows
TranslatorDoInitializeThrew ==
  /\ baseTranslator.initialize = "doInitialize"
  /\ baseTranslator' =
       [baseTranslator EXCEPT
          !.initialize = "idle",
          !.initialized = InitializeOutcome("threw", "doInitialize failed",
                                            baseTranslator.initialized.before)]
  /\ UNCHANGED <<tvars, bvars, hvars, factory, batchTranslate>>

TranslatorTranslate(request) ==
  /\ baseTranslator.translate = "idle"
  /\ baseTranslator.doTranslateCalls < MaxAdapterCalls
  /\ baseTranslator' = translateEnter(baseTranslator, request)
  /\ UNCHANGED <<tvars, bvars, hvars, factory, batchTranslate>>

\* doTranslate resolved with `output`: translate returns the response
TranslatorDoTranslateResolved(output) ==
  /\ baseTranslator.translate = "doTranslate"
  /\ baseTranslator' =
       [baseTranslator EXCEPT
          !.translate = "idle", !.request = NoRequest,
          !.settled = Settled("returned", baseTranslator.request,
                              translateSuccess(baseTranslator.request, output, OPENAI, now),
                              NoTranslationError, baseTranslator.settled.adapterCalls,
                              baseTranslator.settled.ready)]
  /\ UNCHANGED <<tvars, bvars, hvars, factory, batchTranslate>>

TranslatorDoTranslateThrew(message) ==
  /\ baseTranslator.translate = "doTranslate"
  /\ baseTranslator' = translateThrew(baseTranslator, baseTranslator.request, message,
                                      baseTranslator.settled.adapterCalls,
                                      baseTranslator.settled.ready)
  /\ UNCHANGED <<tvars, bvars, hvars, factory, batchTranslate>>

\* updateConfig(newConfig): a new apiKey clears the flag
TranslatorUpdateConfig(newConfig) ==
  /\ baseTranslator' =
       IF newConfig.apiKey # "undefined"
         THEN [baseTranslator EXCEPT !.config = [apiKey |-> newConfig.apiKey],
                                     !.isInitialized = FALSE]
         ELSE baseTranslator
  /\ UNCHANGED <<tvars, bvars, hvars, factory, batchTranslate>>

\* destroy() up to `await this.doDestroy()`
TranslatorDestroy ==
  /\ baseTranslator.destroy = "idle"
  /\ baseTranslator' = [baseTranslator EXCEPT !.destroy = "doDestroy"]
  /\ UNCHANGED <<tvars, bvars, hvars, factory, batchTranslate>>

\* doDestroy resolved: destroy() clears the flag and resolves
TranslatorDoDestroyResolved ==
  /\ baseTranslator.destroy = "doDestroy"
  /\ baseTranslator' = [baseTranslator EXCEPT !.destroy = "idle", !.isInitialized = FALSE,
                                              !.ready = FALSE]
  /\ UNCHANGED <<tvars, bvars, hvars, factory, batchTranslate>>

\* doDestroy threw: the catch block logs and rethrows, the flag is not touched
TranslatorDoDestroyThrew ==
  /\ baseTranslator.destroy = "doDestroy"
  /\ baseTranslator' = [baseTranslator EXCEPT !.destroy = "idle"]
  /\ UNCHANGED <<tvars, bvars, hvars, factory, batchTranslate>>

----------------------------------------------------------------------------
(* TranslatorFactory: registerTranslatorFull, unregisterTranslator,          *)
(* createTranslatorAsync and destroyInstance.  An instance id is the pair    *)
(* <<prefix, n>> of the text before its first '_' and a number standing for  *)
(* the rest; the instance map is the set of its <<id, object>> entries, and  *)
(* an object is its position in the list of the objects constructed so far.  *)

\* createTranslatorAsync calls in flight at once, and calls made in all
MaxCreates == 2
MaxStarted == 2
\* destroyInstance calls in flight at once
MaxDestroys == 2


\* ids a caller passes: `test_${type}_${Date.now()}` of the settings page and
\* an id that begins with the name of a type
ExplicitIds == { <<"test", 0>>, <<CUSTOM, 0>> }
\* instanceId left out
NoId == <<"", 0>>

\* key.split('_')[0]
Prefix(id) == id[1]

\* generateInstanceId: `${type}_${timestamp}_${random}`, a new id every time
generateInstanceId(type, serial) == <<type, serial>>

\* the configurations a caller passes: without and with the field the
\* adapter's validateConfig requires
FactoryConfigs == {[apiKey |-> ""], [apiKey |-> "sk-1"]}

\* Map.has, Map.get, Map.set and Map.delete on the instance map
has(m, id) == \E e \in m : e[1] = id
get(m, id) == (CHOOSE e \in m : e[1] = id)[2]
set(m, id, obj) == {e \in m : e[1] # id} \cup {<<id, obj>>}
delete(m, id) == {e \in m : e[1] # id}

\* utils.validation.validateConfig({...config, translatorType: type}): the
\* object { valid, errors }; a TranslatorConfig has no sourceLanguage and no
\* targetLanguage, which the function requires
validateConfig(config) == [valid |-> FALSE, missing |-> {"sourceLanguage", "targetLanguage"}]

\* the value of an object where a boolean is expected
ToBoolean(object) == TRUE

NoCreate ==
  [pc |-> "idle", type |-> "", config |-> NoConfig, id |-> NoId, old |-> 0, obj |-> 0,
   before |-> {}, oldDestroyed |-> FALSE]

\* how the createTranslatorAsync call that settled last ended
Created(n, outcome, message, call, obj) ==
  [n |-> n, outcome |-> outcome, message |-> message, type |-> call.type,
   config |-> call.config, id |-> call.id, old |-> call.old, obj |-> obj,
   before |-> call.before, oldDestroyed |-> call.oldDestroyed]

\* no destroyAllInstances, getAvailableInstances, reinitializeInstance or
\* createMultipleTranslators call has been made
NoOp ==
  [kind |-> "none", pc |-> "idle", entries |-> <<>>, configs |-> <<>>, i |-> 0,
   attempted |-> {}, failed |-> {}, results |-> {}, errors |-> 0,
   id |-> NoId, config |-> NoConfig, message |-> ""]

FactoryNew ==
  [translators |-> {}, instances |-> {}, objects |-> <<>>, serial |-> 0, started |-> 0,
   creates |-> [c \in (1..MaxCreates) |-> NoCreate], destroys |-> {},
   last |-> Created(0, "none", "", NoCreate, 0), op |-> NoOp]

\* the catch block of createTranslatorAsync: the error is logged and rethrown
createCatch(f, c, call, message) ==
  [f EXCEPT !.creates[c] = NoCreate,
            !.last = Created(f.last.n + 1, "threw", message, call, 0)]

\* `new registration.constructor(config)` and `instance.initialize(config)`
\* up to `await this.doInitialize()`, or to the throw of initialize when the
\* adapter's validateConfig() refuses the configuration
createConstruct(f, c, call) ==
  LET obj == Len(f.objects) + 1
      made == [f EXCEPT !.objects = Append(@, [type |-> call.type,
                                               config |-> call.config,
                                               isInitialized |-> FALSE,
                                               destroyed |-> FALSE])]
      constructing == [call EXCEPT !.obj = obj,
                                   !.oldDestroyed = IF call.old = 0 THEN FALSE
                                                    ELSE f.objects[call.old].destroyed]
  IN IF ~adapterValidateConfig(call.config)
       THEN createCatch(made, c, constructing, "Configuration validation failed")
       ELSE [made EXCEPT !.creates[c] = [constructing EXCEPT !.pc = "initializing"]]

\* destroyInstance(instanceId) up to `await instance.destroy()`, which runs
\* up to `await this.doDestroy()`; waiter is the createTranslatorAsync call
\* that awaits it, 0 when no such call does
destroyInstance(f, id, waiter) ==
  IF ~has(f.instances, id) THEN f
  ELSE [f EXCEPT !.destroys = @ \cup {[id |-> id, obj |-> get(f.instances, id),
                                       pc |-> "doDestroy", waiter |-> waiter]}]

\* createTranslatorAsync constructing the new instance without awaiting the
\* destroyInstance call of the old one
createEnter_notAwaiting(f, c, type, config, instanceId) ==
  IF type \notin f.translators
    THEN createCatch(f, c, [NoCreate EXCEPT !.type = type, !.config = config,
                                            !.id = instanceId, !.before = f.instances],
                     "Translator type is not registered")
  ELSE LET generated == instanceId = NoId
           id == IF generated THEN generateInstanceId(type, f.serial + 1) ELSE instanceId
           call == [NoCreate EXCEPT !.type = type, !.config = config, !.id = id,
                                    !.before = f.instances,
                                    !.old = IF has(f.instances, id)
                                              THEN get(f.instances, id) ELSE 0]
           g == [f EXCEPT !.serial = IF generated THEN @ + 1 ELSE @]
       IN createConstruct(destroyInstance(g, id, 0), c, call)

\* createTranslatorAsync(type, config, instanceId) up to its first await or
\* to its throw
createEnter(f, c, type, config, instanceId) ==
  IF type \notin f.translators
    THEN createCatch(f, c, [NoCreate EXCEPT !.type = type, !.config = config,
                                            !.id = instanceId, !.before = f.instances],
                     "Translator type is not registered")
  ELSE IF ~ToBoolean(validateConfig(config))
    THEN createCatch(f, c, [NoCreate EXCEPT !.type = type, !.config = config,
                                            !.id = instanceId, !.before = f.instances],
                     "Invalid translator configuration")
  ELSE LET generated == instanceId = NoId
           id == IF generated THEN generateInstanceId(type, f.serial + 1) ELSE instanceId
           call == [NoCreate EXCEPT !.type = type, !.config = config, !.id = id,
                                    !.before = f.instances,
                                    !.old = IF has(f.instances, id)
                                              THEN get(f.instances, id) ELSE 0]
           g == [f EXCEPT !.serial = IF generated THEN @ + 1 ELSE @]
       IN IF has(f.instances, id)
            THEN [destroyInstance(g, id, c) EXCEPT
                    !.creates[c] = [call EXCEPT !.pc = "destroying"]]
            ELSE createConstruct(g, c, call)

\* the keys unregisterTranslator collects: those whose prefix is the type
instancesToDestroy(f, type) == { e[1] : e \in {x \in f.instances : Prefix(x[1]) = type} }

RECURSIVE destroyEach(_, _)
destroyEach(f, keys) ==
  IF keys = {} THEN f
  ELSE LET key == CHOOSE k \in keys : TRUE
       IN destroyEach(destroyInstance(f, key, 0), keys \ {key})

FactoryRegister(type) ==
  /\ factory' = [factory EXCEPT !.translators = @ \cup {type}]
  /\ UNCHANGED <<tvars, bvars, hvars, baseTranslator, batchTranslate>>

\* unregisterTranslator(type): destroyInstance is called for every collected
\* key and not awaited, then the registration is deleted
FactoryUnregister(type) ==
  /\ Cardinality(factory.destroys) + Cardinality(instancesToDestroy(factory, type))
       <= MaxDestroys
  /\ factory' =
       IF type \notin factory.translators THEN factory
       ELSE [destroyEach(factory, instancesToDestroy(factory, type)) EXCEPT
               !.translators = @ \ {type}]
  /\ UNCHANGED <<tvars, bvars, hvars, baseTranslator, batchTranslate>>

FactoryCreate(c, type, config, instanceId) ==
  /\ factory.creates[c].pc = "idle"
  /\ \A b \in 1..(c - 1) : factory.creates[b].pc # "idle"
  /\ factory.started < MaxStarted
  /\ Cardinality(factory.destroys) < MaxDestroys
  /\ factory' = [createEnter(factory, c, type, config, instanceId) EXCEPT !.started = @ + 1]
  /\ UNCHANGED <<tvars, bvars, hvars, baseTranslator, batchTranslate>>

\* a destroyInstance call of another caller
FactoryDestroyInstance(id) ==
  /\ Cardinality(factory.destroys) < MaxDestroys
  /\ has(factory.instances, id)
  /\ factory' = destroyInstance(factory, id, 0)
  /\ UNCHANGED <<tvars, bvars, hvars, baseTranslator, batchTranslate>>

\* doDestroy of the object resolved: destroy() clears the flag and resolves
FactoryDoDestroyResolved(d) ==
  /\ d \in factory.destroys
  /\ d.pc = "doDestroy"
  /\ factory' = [factory EXCEPT
                   !.objects[d.obj] = [@ EXCEPT !.isInitialized = FALSE, !.destroyed = TRUE],
                   !.destroys = (@ \ {d}) \cup {[d EXCEPT !.pc = "delete"]}]
  /\ UNCHANGED <<tvars, bvars, hvars, baseTranslator, batchTranslate>>

\* destroyInstance after `await instance.destroy()`: the key is deleted, and
\* the createTranslatorAsync call awaiting it may continue
FactoryDestroyResumed(d) ==
  /\ d \in factory.destroys
  /\ d.pc = "delete"
  /\ factory' = [factory EXCEPT
                   !.instances = delete(@, d.id),
                   !.destroys = @ \ {d},
                   !.creates = IF d.waiter = 0 THEN @
                               ELSE [@ EXCEPT ![d.waiter].pc = "constructing"]]
  /\ UNCHANGED <<tvars, bvars, hvars, baseTranslator, batchTranslate>>

\* createTranslatorAsync after `await this.destroyInstance(id)`
FactoryCreateConstruct(c) ==
  /\ factory.creates[c].pc = "constructing"
  /\ factory' = createConstruct(factory, c, factory.creates[c])
  /\ UNCHANGED <<tvars, bvars, hvars, baseTranslator, batchTranslate>>
\* the store of createTranslatorAsync destroying the instance it replaces
FactoryCreateStore_destroyingReplaced(c) ==
  /\ factory.creates[c].pc = "initializing"
  /\ LET call == factory.creates[c]
         replaced == IF has(factory.instances, call.id)
                       THEN {get(factory.instances, call.id)} ELSE {}
     IN factory' =
          [factory EXCEPT !.objects = [o \in DOMAIN @ |->
                                         IF o = call.obj THEN [@[o] EXCEPT !.isInitialized = TRUE]
                                         ELSE IF o \in replaced
                                           THEN [@[o] EXCEPT !.isInitialized = FALSE,
                                                             !.destroyed = TRUE]
                                         ELSE @[o]],
                          !.instances = set(@, call.id, call.obj),
                          !.creates[c] = NoCreate,
                          !.last = Created(factory.last.n + 1, "returned", "", call, call.obj)]
  /\ UNCHANGED <<tvars, bvars, hvars, baseTranslator, batchTranslate>>

\* doInitialize resolved: initialize sets the flag and resolves, and
\* createTranslatorAsync stores the instance and returns it.  The object is
\* referenced by this call alone until it is stored, so the two
\* continuations are taken as one step
FactoryCreateStore(c) ==
  /\ factory.creates[c].pc = "initializing"
  /\ LET call == factory.creates[c]
     IN factory' =
          [factory EXCEPT !.objects[call.obj].isInitialized = TRUE,
                          !.instances = set(@, call.id, call.obj),
                          !.creates[c] = NoCreate,
                          !.last = Created(factory.last.n + 1, "returned", "", call, call.obj)]
  /\ UNCHANGED <<tvars, bvars, hvars, baseTranslator, batchTranslate>>

----------------------------------------------------------------------------
(* TranslatorFactory: destroyAllInstances, getAvailableInstances,            *)
(* reinitializeInstance and createMultipleTranslators, called by one caller  *)
(* one after the other.  `op` is the call in progress or, once its pc is     *)
(* "returned" or "threw", the call that settled last.                        *)

\* the entries of the instance map in insertion order: under calls made one
\* after the other that is the order in which the objects were constructed
RECURSIVE entries(_)
entries(m) ==
  IF m = {} THEN <<>>
  ELSE LET first == CHOOSE e \in m : \A x \in m : e[2] <= x[2]
       IN <<first>> \o entries(m \ {first})

\* no call on the factory is in progress
Quiescent(f) ==
  /\ f.op.pc \in {"idle", "returned", "threw"}
  /\ f.destroys = {}
  /\ \A c \in 1..MaxCreates : f.creates[c].pc = "idle"

\* what an ITranslator's isAvailable() may do
AvailabilityOutcomes == {"true", "false", "threw"}

\* the arrays createMultipleTranslators is called with
MultipleConfigs ==
  SeqsUpTo([type : TranslatorTypes, config : FactoryConfigs,
            instanceId : ExplicitIds \cup {NoId}], MaxStarted)

\* destroy() rejected: BaseTranslator.destroy and destroyInstance log and
\* rethrow; the flag and the map are left as they are, and the
\* createTranslatorAsync call awaiting the destroy throws
FactoryDoDestroyThrew(d) ==
  /\ d \in factory.destroys
  /\ d.pc = "doDestroy"
  /\ LET failed == [factory EXCEPT !.destroys = @ \ {d},
                                   !.op.failed = IF factory.op.pc = "awaiting"
                                                   THEN @ \cup {d.obj} ELSE @]
     IN factory' = IF d.waiter = 0 THEN failed
                   ELSE createCatch(failed, d.waiter, factory.creates[d.waiter],
                                    "destroy failed")
  /\ UNCHANGED <<tvars, bvars, hvars, baseTranslator, batchTranslate>>

\* the loop of destroyAllInstances leaving at the first failed destroy
destroyAllLoop_stoppingAtFailure(f) ==
  IF f.op.i < Len(f.op.entries) /\ f.op.failed = {}
    THEN LET id == f.op.entries[f.op.i + 1][1]
         IN IF has(f.instances, id)
              THEN [destroyInstance(f, id, 0) EXCEPT
                      !.op.pc = "awaiting",
                      !.op.attempted = @ \cup {get(f.instances, id)}]
              ELSE [f EXCEPT !.op.pc = "awaiting"]
    ELSE [f EXCEPT !.op.pc = "returned"]

\* the loop of destroyAllInstances up to `await this.destroyInstance(id)` or
\* to the end of the function; the catch block only logs
destroyAllLoop(f) ==
  IF f.op.i < Len(f.op.entries)
    THEN LET id == f.op.entries[f.op.i + 1][1]
         IN IF has(f.instances, id)
              THEN [destroyInstance(f, id, 0) EXCEPT
                      !.op.pc = "awaiting",
                      !.op.attempted = @ \cup {get(f.instances, id)}]
              ELSE [f EXCEPT !.op.pc = "awaiting"]
    ELSE [f EXCEPT !.op.pc = "returned"]

\* destroyAllInstances() is called
FactoryDestroyAll ==
  /\ Quiescent(factory)
  /\ factory' = destroyAllLoop([factory EXCEPT
                                  !.op = [NoOp EXCEPT !.kind = "destroyAllInstances",
                                                      !.entries = entries(factory.instances)]])
  /\ UNCHANGED <<tvars, bvars, hvars, baseTranslator, batchTranslate>>

\* destroyInstance(id) has settled
FactoryDestroyAllResumed ==
  /\ factory.op.kind = "destroyAllInstances"
  /\ factory.op.pc = "awaiting"
  /\ factory.destroys = {}
  /\ factory' = destroyAllLoop([factory EXCEPT !.op.i = @ + 1])
  /\ UNCHANGED <<tvars, bvars, hvars, baseTranslator, batchTranslate>>

\* the loop of getAvailableInstances up to `await instance.isAvailable()` or
\* to `return available`
availableLoop(f) ==
  IF f.op.i < Len(f.op.entries)
    THEN [f EXCEPT !.op.pc = "checking",
                   !.op.attempted = @ \cup {f.op.entries[f.op.i + 1][2]}]
    ELSE [f EXCEPT !.op.pc = "returned"]

\* getAvailableInstances() is called
FactoryGetAvailable ==
  /\ Quiescent(factory)
  /\ factory' = availableLoop([factory EXCEPT
                                 !.op = [NoOp EXCEPT !.kind = "getAvailableInstances",
                                                     !.entries = entries(factory.instances)]])
  /\ UNCHANGED <<tvars, bvars, hvars, baseTranslator, batchTranslate>>

\* the catch block of getAvailableInstances rethrowing
isAvailableSettled_rethrowing(f, outcome) ==
  LET entry == f.op.entries[f.op.i + 1]
  IN IF outcome = "threw"
       THEN [f EXCEPT !.op.pc = "threw", !.op.failed = @ \cup {entry[2]},
                      !.op.errors = @ + 1]
       ELSE availableLoop([f EXCEPT !.op.i = @ + 1,
                                    !.op.results = IF outcome = "true" THEN @ \cup {entry}
                                                   ELSE @,
                                    !.op.failed = IF outcome = "true" THEN @
                                                  ELSE @ \cup {entry[2]}])

\* isAvailable() of the current instance resolved to true or false, or
\* threw: available.set(id, instance) in the first case, a warning in the last
isAvailableSettled(f, outcome) ==
  LET entry == f.op.entries[f.op.i + 1]
  IN availableLoop([f EXCEPT !.op.i = @ + 1,
                             !.op.results = IF outcome = "true" THEN @ \cup {entry} ELSE @,
                             !.op.failed = IF outcome = "true" THEN @
                                           ELSE @ \cup {entry[2]},
                             !.op.errors = IF outcome = "threw" THEN @ + 1 ELSE @])

FactoryIsAvailableSettled(outcome) ==
  /\ factory.op.kind = "getAvailableInstances"
  /\ factory.op.pc = "checking"
  /\ factory' = isAvailableSettled(factory, outcome)
  /\ UNCHANGED <<tvars, bvars, hvars, baseTranslator, batchTranslate>>

\* reinitializeInstance(instanceId, config) up to `await instance.destroy()`,
\* or to its throw when the map has no such instance
FactoryReinitialize(id, config) ==
  /\ Quiescent(factory)
  /\ LET op == [NoOp EXCEPT !.kind = "reinitializeInstance", !.id = id, !.config = config]
     IN factory' =
          IF ~has(factory.instances, id)
            THEN [factory EXCEPT !.op = [op EXCEPT !.pc = "threw",
                                                   !.message = "Instance not found"]]
            ELSE [factory EXCEPT !.op = [op EXCEPT !.pc = "destroying",
                                                   !.entries = <<<<id, get(factory.instances, id)>>>>]]
  /\ UNCHANGED <<tvars, bvars, hvars, baseTranslator, batchTranslate>>

\* destroy() resolved: the flag is cleared, and initialize(config) runs up to
\* `await this.doInitialize()` or throws when validateConfig() refuses
FactoryReinitDestroyResolved ==
  /\ factory.op.kind = "reinitializeInstance"
  /\ factory.op.pc = "destroying"
  /\ LET obj == factory.op.entries[1][2]
         config == IF factory.op.config = NoConfig THEN factory.objects[obj].config
                   ELSE factory.op.config
         destroyed == [factory EXCEPT !.objects[obj] = [@ EXCEPT !.isInitialized = FALSE,
                                                                 !.destroyed = TRUE,
                                                                 !.config = config]]
     IN factory' =
          IF ~adapterValidateConfig(config)
            THEN [destroyed EXCEPT !.op.pc = "threw",
                                   !.op.message = "Configuration validation failed"]
            ELSE [destroyed EXCEPT !.op.pc = "initializing"]
  /\ UNCHANGED <<tvars, bvars, hvars, baseTranslator, batchTranslate>>

\* destroy() rejected: the catch block logs and rethrows
FactoryReinitDestroyThrew ==
  /\ factory.op.kind = "reinitializeInstance"
  /\ factory.op.pc = "destroying"
  /\ factory' = [factory EXCEPT !.op.pc = "threw", !.op.message = "destroy failed",
                                !.op.failed = {factory.op.entries[1][2]}]
  /\ UNCHANGED <<tvars, bvars, hvars, baseTranslator, batchTranslate>>

\* doInitialize resolved: the flag is set and reinitializeInstance returns
FactoryReinitInitialized ==
  /\ factory.op.kind = "reinitializeInstance"
  /\ factory.op.pc = "initializing"
  /\ factory' = [factory EXCEPT !.objects[factory.op.entries[1][2]].isInitialized = TRUE,
                                !.op.pc = "returned"]
  /\ UNCHANGED <<tvars, bvars, hvars, baseTranslator, batchTranslate>>

\* the loop of createMultipleTranslators up to
\* `await this.createTranslatorAsync(type, config, instanceId)` or to
\* `return results`
multipleLoop(f) ==
  IF f.op.i < Len(f.op.configs)
    THEN LET next == f.op.configs[f.op.i + 1]
         IN [createEnter(f, 1, next.type, next.config, next.instanceId) EXCEPT
               !.op.pc = "creating", !.started = @ + 1]
    ELSE [f EXCEPT !.op.pc = "returned"]

\* createMultipleTranslators(configs) is called
FactoryCreateMultiple(configs) ==
  /\ Quiescent(factory)
  /\ factory.started + Len(configs) <= MaxStarted
  /\ factory' = multipleLoop([factory EXCEPT
                                !.op = [NoOp EXCEPT !.kind = "createMultipleTranslators",
                                                    !.configs = configs]])
  /\ UNCHANGED <<tvars, bvars, hvars, baseTranslator, batchTranslate>>

\* createTranslatorAsync has settled: `instanceId || generateInstanceId(type)`
\* and results.set(id, instance) when it returned, errors.push when it threw
FactoryCreateMultipleResumed ==
  /\ factory.op.kind = "createMultipleTranslators"
  /\ factory.op.pc = "creating"
  /\ factory.creates[1].pc = "idle"
  /\ factory.destroys = {}
  /\ LET item == factory.op.configs[factory.op.i + 1]
         generated == item.instanceId = NoId
         id == IF generated THEN generateInstanceId(item.type, factory.serial + 1)
               ELSE item.instanceId
     IN factory' =
          IF factory.last.outcome = "returned"
            THEN multipleLoop([factory EXCEPT
                                 !.op.i = @ + 1,
                                 !.serial = IF generated THEN @ + 1 ELSE @,
                                 !.op.results = set(@, id, factory.last.obj)])
            ELSE multipleLoop([factory EXCEPT !.op.i = @ + 1,
                                              !.op.errors = @ + 1])
  /\ UNCHANGED <<tvars, bvars, hvars, baseTranslator, batchTranslate>>

----------------------------------------------------------------------------
(* Specification of the translateText service *)

\* config.translators (absent, present but rejected by the adapter's
\* validateConfig, or valid) and the types registered with the factory
Deployments ==
  { <<[t \in TranslatorTypes |-> IF t = OPENAI THEN "valid" ELSE "absent"], TranslatorTypes>>,
    <<[t \in TranslatorTypes |-> IF t = OPENAI THEN "invalid" ELSE "absent"], TranslatorTypes>>,
    <<[t \in TranslatorTypes |-> IF t = OPENAI THEN "valid" ELSE "valid"], {CUSTOM}>>,
    <<[t \in TranslatorTypes |-> "absent"], TranslatorTypes>> }

BatchIdle == <<>>

Init ==
  /\ isInitialized = FALSE
  /\ svcPc = "new"
  /\ translationCache = <<>>
  /\ translationHistory = <<>>
  /\ \E enableCache \in BOOLEAN, enableHistory \in BOOLEAN, d \in Deployments :
       /\ settings = [enableCache |-> enableCache, enableHistory |-> enableHistory,
                      defaultTranslator |-> OPENAI, translators |-> d[1]]
       /\ registered = d[2]
  /\ instances = <<>>
  /\ calls = [c \in Calls |-> IdleCall]
  /\ returned = NoReturn
  /\ now = 0
  /\ intact = {}
  /\ clears = 0
  /\ evicted = {}
  /\ tasks = BatchIdle
  /\ batchTasks = {}
  /\ cancelReturn = "none"
  /\ http = HttpIdle
  /\ baseTranslator = TranslatorNew
  /\ factory = FactoryNew
  /\ batchTranslate = BatchTranslateIdle

Next ==
  \/ \E c \in Calls, request \in Requests : TranslateStart(c, request)
  \/ \E c \in Calls : CreateTranslatorDone(c)
  \/ \E c \in Calls, output \in BackendOutputs : BackendSuccess(c, output)
  \/ \E c \in Calls, message \in BackendErrors : BackendFailure(c, message)
  \/ InitializeStart
  \/ InitLoadHistory
  \/ InitLoadCache
  \/ DestroyStart
  \/ DestroyClear
  \/ ClearCache

Spec == Init /\ [][Next]_vars

----------------------------------------------------------------------------
(* Specification of the batch tasks *)

BatchStep ==
  \/ \E k \in TaskIds : BatchCreateDone(k)
  \/ \E k \in TaskIds, output \in BackendOutputs : BatchChunkReturned(k, output)
  \/ \E k \in TaskIds, message \in BackendErrors : BatchChunkThrew(k, message)
  \/ \E k \in TaskIds : BatchRejected(k)

NextBatch ==
  \/ \E texts \in BatchInputs : StartBatch(texts, settings.defaultTranslator)
  \/ BatchStep
  \/ \E k \in TaskIds : CancelBatch(k)
  \/ InitializeStart
  \/ InitLoadHistory
  \/ InitLoadCache
  \/ DestroyStart
  \/ DestroyClear

SpecBatch == Init /\ [][NextBatch]_vars

\* every await of executeBatchTranslation settles and its continuation runs
SpecBatchFair == Init /\ [][NextBatch]_vars /\ WF_vars(BatchStep)

----------------------------------------------------------------------------
(* Specification of sequential translateText calls *)

NextCache ==
  \/ InitializeStart
  \/ InitLoadHistory
  \/ InitLoadCache
  \/ \E request \in CacheRequests : TranslateHit(request)
  \/ \E request \in CacheRequests, output \in BackendOutputs : TranslateMiss(request, output)

SpecCache == Init /\ [][NextCache]_vars

----------------------------------------------------------------------------
(* Specification of batchTranslate *)

NextBatchTranslate ==
  \/ InitializeStart
  \/ InitLoadHistory
  \/ InitLoadCache
  \/ DestroyStart
  \/ DestroyClear
  \/ \E requests \in SeqsUpTo(Requests, MaxRequests) : BatchTranslate(requests)
  \/ \E c \in Calls : CreateTranslatorDone(c)
  \/ \E c \in Calls, output \in BackendOutputs : BackendSuccess(c, output)
  \/ \E c \in Calls, message \in BackendErrors : BackendFailure(c, message)
  \/ BatchTranslateResumed

SpecBatchTranslate == Init /\ [][NextBatchTranslate]_vars

----------------------------------------------------------------------------
(* Specification of HttpUtils.request *)

NextHttp ==
  \/ \E retries \in Retries : HttpRequest(retries)
  \/ \E status \in Statuses, parsed \in BOOLEAN : FetchResolved(status, parsed)
  \/ \E message \in FetchTypeErrors : FetchRejected(message)
  \/ \E a \in 0..MaxRetries : TimerFires(a)
  \/ DelayElapsed

SpecHttp == Init /\ [][NextHttp]_vars

----------------------------------------------------------------------------
(* Specification of one adapter object *)

\* the plugin with its default settings, the OpenAI backend configured
InitPlugin ==
  /\ Init
  /\ settings.enableCache
  /\ settings.enableHistory
  /\ settings.translators[OPENAI] = "valid"
  /\ registered = TranslatorTypes

NextTranslator ==
  \/ \E config \in TranslatorConfigs \cup {NoConfig} : TranslatorInitialize(config)
  \/ TranslatorDoInitializeResolved
  \/ TranslatorDoInitializeThrew
  \/ \E request \in TranslatorRequests : TranslatorTranslate(request)
  \/ \E output \in BackendOutputs : TranslatorDoTranslateResolved(output)
  \/ \E message \in AdapterErrors : TranslatorDoTranslateThrew(message)
  \/ \E newConfig \in PartialConfigs : TranslatorUpdateConfig(newConfig)
  \/ TranslatorDestroy
  \/ TranslatorDoDestroyResolved
  \/ TranslatorDoDestroyThrew

SpecTranslator == InitPlugin /\ [][NextTranslator]_vars

----------------------------------------------------------------------------
(* Specification of the factory *)

NextFactory ==
  \/ \E type \in TranslatorTypes : FactoryRegister(type)
  \/ \E type \in TranslatorTypes : FactoryUnregister(type)
  \/ \E c \in (1..MaxCreates), type \in TranslatorTypes, config \in FactoryConfigs,
         instanceId \in ExplicitIds \cup {NoId} :
       FactoryCreate(c, type, config, instanceId)
  \/ \E id \in {e[1] : e \in factory.instances} : FactoryDestroyInstance(id)
  \/ \E d \in factory.destroys : FactoryDoDestroyResolved(d)
  \/ \E d \in factory.destroys : FactoryDestroyResumed(d)
  \/ \E c \in (1..MaxCreates) : FactoryCreateConstruct(c)
  \/ \E c \in (1..MaxCreates) : FactoryCreateStore(c)

SpecFactory == InitPlugin /\ [][NextFactory]_vars

----------------------------------------------------------------------------
(* Specification of the factory's operations, called one after the other *)

NextFactoryOps ==
  \/ \E type \in TranslatorTypes : Quiescent(factory) /\ FactoryRegister(type)
  \/ \E type \in TranslatorTypes, config \in FactoryConfigs,
         instanceId \in ExplicitIds \cup {NoId} :
       Quiescent(factory) /\ FactoryCreate(1, type, config, instanceId)
  \/ \E id \in {e[1] : e \in factory.instances} :
       Quiescent(factory) /\ FactoryDestroyInstance(id)
  \/ \E d \in factory.destroys : FactoryDoDestroyResolved(d)
  \/ \E d \in factory.destroys : FactoryDoDestroyThrew(d)
  \/ \E d \in factory.destroys : FactoryDestroyResumed(d)
  \/ \E c \in (1..MaxCreates) : FactoryCreateConstruct(c)
  \/ \E c \in (1..MaxCreates) : FactoryCreateStore(c)
  \/ FactoryDestroyAll
  \/ FactoryDestroyAllResumed
  \/ FactoryGetAvailable
  \/ \E outcome \in AvailabilityOutcomes : FactoryIsAvailableSettled(outcome)
  \/ \E id \in ExplicitIds \cup {e[1] : e \in factory.instances},
         config \in FactoryConfigs \cup {NoConfig} :
       FactoryReinitialize(id, config)
  \/ FactoryReinitDestroyResolved
  \/ FactoryReinitDestroyThrew
  \/ FactoryReinitInitialized
  \/ \E configs \in MultipleConfigs : FactoryCreateMultiple(configs)
  \/ FactoryCreateMultipleResumed

SpecFactoryOps == InitPlugin /\ [][NextFactoryOps]_vars

----------------------------------------------------------------------------
(* Properties of translateText *)

\* C1: translateText always resolves; a failure inside it (service not
\* initialized, backend not configured, instance creation failure, backend
\* translate failure) gives status 'error' with an empty translatedText and
\* the request's originalText and targetLang, and no failure gives 'success'.
C1_TranslateTextNeverThrows ==
  returned.settled # "pending" =>
    /\ returned.settled = "resolved"
    /\ returned.resp.status \in {"success", "error"}
    /\ (returned.stage \in {"init", "config", "create", "translate"}
          <=> returned.resp.status = "error")
    /\ (returned.stage = "" <=> returned.resp.status = "success")
    /\ returned.resp.status = "error" =>
         /\ returned.resp.translatedText = <<>>
         /\ returned.resp.originalText = returned.request.text
         /\ returned.resp.targetLang = returned.request.targetLang

\* a call whose backend translate failed has returned an error response
C1_Witness ==
  /\ returned.settled = "resolved"
  /\ returned.stage = "translate"
  /\ returned.backend = 1
  /\ returned.resp.status = "error"
  /\ returned.request.text = <<32, 65, 97>>

\* C2: with caching enabled, a call on the initialized service that follows a
\* successful call with the same (text, sourceLang, targetLang, backend), whose
\* cache entry was neither cleared, evicted nor rewritten in between, is a
\* cache hit: it makes no backend call and returns status 'success' with the
\* first call's translatedText.
C2_SecondCallIsCacheHit ==
  (returned.settled = "resolved" /\ returned.prior # {}) =>
    /\ returned.hit
    /\ returned.backend = 0
    /\ returned.resp.status = "success"
    /\ \A x \in returned.prior : returned.resp.translatedText = x

\* a call was served from the entry an earlier identical call wrote
C2_Witness ==
  /\ returned.hit
  /\ returned.prior # {}
  /\ returned.backend = 0
  /\ returned.request.text = <<32, 65, 97>>

\* C7: when translateText returns status 'error' because the backend
\* instance's translate() failed, the error field carries the message of the
\* underlying failure.
C7_ErrorCarriesUnderlyingMessage ==
  (returned.settled = "resolved" /\ returned.stage = "translate") =>
    returned.resp.error = returned.thrown.message

\* C10: when translateText returns status 'success' from a cache miss with
\* caching enabled, the cache then holds an entry under the request's
\* fingerprint with the returned translatedText, and the newest history entry
\* is that translation.
C10_WriteThroughBeforeReturn ==
  [][\A c \in Calls :
       (/\ calls[c].pc = "translating"
        /\ calls'[c].pc = "idle"
        /\ returned'.resp.status = "success"
        /\ settings.enableCache)
       => /\ MapHas(translationCache', Fingerprint(returned'.request, settings))
          /\ MapGet(translationCache', Fingerprint(returned'.request, settings)).translatedText
               = returned'.resp.translatedText
          /\ translationHistory' # <<>>
          /\ translationHistory'[Len(translationHistory')].translatedText
               = returned'.resp.translatedText
          /\ translationHistory'[Len(translationHistory')].originalText
               = returned'.resp.originalText]_vars

\* a cache miss has returned a translation that is in the cache and is the
\* newest history entry, after an older entry had to make room for it
C10_Witness ==
  /\ settings.enableCache
  /\ returned.resp.status = "success"
  /\ ~returned.hit
  /\ returned.backend = 1
  /\ returned.request.text = <<32, 65, 97>>
  /\ Len(translationCache) = MaxCacheSize
  /\ translationCache[Len(translationCache)].originalText = <<32, 65, 97>>
  /\ translationHistory # <<>>
  /\ translationHistory[Len(translationHistory)].translatedText = returned.resp.translatedText

\* C11: as long as a cache entry is present, no step replaces the
\* translatedText or the timestamp it holds for its text.
C11_CacheEntryImmutable ==
  [][\A i \in 1..Len(translationCache) :
       LET e == translationCache[i]
       IN (/\ MapHas(translationCache', e.hash)
           /\ MapGet(translationCache', e.hash).originalText = e.originalText) =>
            /\ MapGet(translationCache', e.hash).translatedText = e.translatedText
            /\ MapGet(translationCache', e.hash).timestamp = e.timestamp]_vars

\* C12: a call that missed the cache asks for an instance and, when it
\* returns 'success', has made a backend call of its own, also while another
\* call for the same fingerprint is in flight.
C12_NoSingleFlight ==
  [][\A c \in Calls :
       /\ (calls[c].pc = "idle" /\ calls'[c].pc # "idle") => calls'[c].pc = "creating"
       /\ (calls[c].pc = "creating" /\ calls'[c].pc # "creating") =>
            calls'[c].pc \in {"idle", "translating"}
       /\ (calls[c].pc = "translating" /\ calls'[c].pc = "idle"
             /\ returned'.resp.status = "success") =>
            /\ ~returned'.hit
            /\ returned'.backend = 1
            /\ \A d \in Calls \ {c} : calls'[d] = calls[d]]_vars

\* with caching enabled, two calls with the same request are both waiting for
\* their own backend call
C12_Witness ==
  /\ settings.enableCache
  /\ calls[1].pc = "translating"
  /\ calls[2].pc = "translating"
  /\ calls[1].request = calls[2].request
  /\ calls[1].request.text = <<65, 97>>
  /\ translationCache = <<>>

\* C16: the Factory never holds more than one live instance of a backend type.
C16_OneInstancePerType ==
  \A type \in TranslatorTypes :
    Cardinality({i \in 1..Len(instances) : instances[i] = type}) <= 1

\* C18: with the cache flag off a translateText call leaves the cache as it
\* is and a successful call has reached the backend; with the history flag
\* off a successful call leaves the history as it is.
C18_FlagsGovernCacheAndHistory ==
  [][\A c \in Calls :
       (calls[c].pc # calls'[c].pc \/ returned' # returned) =>
         /\ ~settings.enableCache =>
              /\ translationCache' = translationCache
              /\ (returned' # returned /\ returned'.resp.status = "success") =>
                   (~returned'.hit /\ returned'.backend = 1)
         /\ ~settings.enableHistory =>
              ((returned' # returned /\ returned'.resp.status = "success") =>
                 translationHistory' = translationHistory)]_vars

----------------------------------------------------------------------------
(* Properties of the cache and the history under sequential calls *)

\* C13: the cache never holds more entries than its capacity.
C13_CacheBounded == Len(translationCache) <= MaxCacheSize

\* the cache is full after an insertion that deleted an entry
C13_Witness ==
  /\ Len(translationCache) = MaxCacheSize
  /\ evicted # {}
  /\ ~returned.hit
  /\ returned.resp.status = "success"

\* C14: an insertion into a full cache deletes the entry inserted earliest
\* and keeps the others in their order with the new entry last; an
\* insertion into a cache that is not full deletes nothing; a cache hit
\* leaves the cache and its order as they are.
C14_EvictsEarliestInserted ==
  [][/\ (returned' # returned /\ returned'.hit) => translationCache' = translationCache
     /\ (translationCache' # translationCache /\ translationCache' # <<>>) =>
          LET new == translationCache'[Len(translationCache')]
          IN /\ ~MapHas(translationCache, new.hash)
             /\ Len(translationCache) < MaxCacheSize =>
                  /\ translationCache' = Append(translationCache, new)
                  /\ evicted' = {}
             /\ Len(translationCache) = MaxCacheSize =>
                  /\ translationCache' = Append(Tail(translationCache), new)
                  /\ evicted' = {translationCache[1]}
                  /\ \A i \in 1..Len(translationCache) :
                       translationCache[1].timestamp <= translationCache[i].timestamp]_vars

\* after an insertion deleted the entry of "Aa", a hit on the oldest entry
\* left, " Aa", has left it the oldest
C14_Witness ==
  /\ \E e \in evicted : e.originalText = <<65, 97>>
  /\ Len(translationCache) = MaxCacheSize
  /\ translationCache[1].originalText = <<32, 65, 97>>
  /\ translationCache[2].originalText = <<66>>
  /\ returned.hit
  /\ returned.request.text = <<32, 65, 97>>

\* C15: the history never holds more than its limit; appending to a history
\* at the limit drops the oldest entry only and keeps the others in their
\* order with the new entry last.
C15_HistoryCapped ==
  [][/\ Len(translationHistory') <= MaxHistorySize
     /\ (\/ translationHistory' # translationHistory
         \/ /\ returned' # returned
            /\ ~returned'.hit
            /\ returned'.resp.status = "success") =>
          LET new == translationHistory'[Len(translationHistory')]
          IN /\ new.translatedText = returned'.resp.translatedText
             /\ new.originalText = returned'.resp.originalText
             /\ Len(translationHistory) < MaxHistorySize =>
                  translationHistory' = Append(translationHistory, new)
             /\ Len(translationHistory) = MaxHistorySize =>
                  translationHistory' = Append(Tail(translationHistory), new)]_vars

\* the translations of "Aa", " Aa" and "B" were appended to the history, the
\* third one evicting the cache entry of "Aa": the history holds the last two
\* (the backend reports the sanitized text as originalText)
C15_Witness ==
  /\ Len(translationHistory) = MaxHistorySize
  /\ translationHistory[1].originalText = <<65, 97>>
  /\ translationHistory[2].originalText = <<66>>
  /\ returned.request.text = <<66>>
  /\ ~returned.hit
  /\ \E e \in evicted : e.originalText = <<65, 97>>

----------------------------------------------------------------------------
(* Properties of the batch tasks *)

\* C3: in a batch task that is never cancelled, results[i] is always the
\* outcome of texts[i], and when the loop has ended results has the length of
\* texts, with status 'error' exactly at the chunks whose translate call
\* failed and 'success' at all others.
C3_ResultsAlignedWithTexts ==
  \A k \in DOMAIN tasks :
    tasks[k].cancels = 0 =>
      /\ Len(tasks[k].results) <= Len(tasks[k].texts)
      /\ \A i \in 1..Len(tasks[k].results) :
           tasks[k].results[i].originalText = tasks[k].texts[i]
      /\ (tasks[k].pc = "done" /\ tasks[k].created) =>
           /\ Len(tasks[k].results) = Len(tasks[k].texts)
           /\ \A j \in 1..Len(tasks[k].texts) :
                /\ tasks[k].results[j].status = "error" <=> j \in tasks[k].failed
                /\ tasks[k].results[j].status = "success" <=> j \notin tasks[k].failed

\* an uncancelled task has ended whose first chunk failed and whose second succeeded
C3_Witness ==
  \E k \in DOMAIN tasks :
    /\ tasks[k].cancels = 0
    /\ tasks[k].pc = "done"
    /\ tasks[k].created
    /\ Len(tasks[k].texts) = 2
    /\ tasks[k].failed = {1}
    /\ tasks[k].results[1].status = "error"
    /\ tasks[k].results[2].status = "success"

\* C4: once cancelBatchTranslation was applied to a running task, the task's
\* status is 'failed', also after the loop has observed the cancellation.
C4_CancelledTaskStaysFailed ==
  \A k \in DOMAIN tasks :
    tasks[k].startedAtCancel # -1 => tasks[k].status = "failed"

\* C5: after cancelBatchTranslation was applied to a running task no new
\* translate call is started; at most the call in flight is still to be
\* recorded, and when the loop has ended every started chunk has its result.
C5_NoNewChunkAfterCancel ==
  \A k \in DOMAIN tasks :
    tasks[k].startedAtCancel # -1 =>
      /\ tasks[k].started = tasks[k].startedAtCancel
      /\ Len(tasks[k].results) \in {tasks[k].started - 1, tasks[k].started}
      /\ tasks[k].pc = "translating" <=> Len(tasks[k].results) = tasks[k].started - 1
      /\ tasks[k].pc = "done" => Len(tasks[k].results) = tasks[k].started

\* a task of two chunks was cancelled while its first chunk was in flight and
\* has ended with that chunk recorded and the second never started
C5_Witness ==
  \E k \in DOMAIN tasks :
    /\ tasks[k].startedAtCancel = 1
    /\ tasks[k].pc = "done"
    /\ Len(tasks[k].texts) = 2
    /\ Len(tasks[k].results) = 1
    /\ tasks[k].started = 1

\* C8: every batch task eventually ends with a terminal status; a task that
\* was not cancelled and whose instance was created ends 'completed', however
\* many chunks failed, with progress 100 when texts is non-empty.
C8_BatchTaskTerminates ==
  \A k \in TaskIds :
    (k \in DOMAIN tasks) ~>
      (/\ k \in DOMAIN tasks
       /\ tasks[k].pc = "done"
       /\ tasks[k].status \in {"completed", "failed"}
       /\ (tasks[k].cancels = 0 /\ tasks[k].created) =>
            /\ tasks[k].status = "completed"
            /\ tasks[k].texts # <<>> => tasks[k].progress[1] = tasks[k].progress[2])

\* an uncancelled task has ended 'completed' with every chunk failed
C8_Witness ==
  \E k \in DOMAIN tasks :
    /\ tasks[k].pc = "done"
    /\ tasks[k].cancels = 0
    /\ tasks[k].created
    /\ Len(tasks[k].texts) = 2
    /\ tasks[k].failed = {1, 2}
    /\ tasks[k].status = "completed"
    /\ tasks[k].progress = <<2, 2>>

\* C9: once a task's status is 'completed' or 'failed', its status, results,
\* errors and progress never change, and cancelBatchTranslation is not
\* applied to it.
C9_TerminalTaskIsFrozen ==
  [][\A k \in DOMAIN tasks :
       tasks[k].status \in {"completed", "failed"} =>
         /\ tasks'[k].status = tasks[k].status
         /\ tasks'[k].results = tasks[k].results
         /\ tasks'[k].errors = tasks[k].errors
         /\ tasks'[k].progress = tasks[k].progress
         /\ tasks'[k].cancels = tasks[k].cancels]_vars

\* C17: when a chunk of a batch task was translated successfully, the
\* translation is the newest history entry and, with caching enabled, the
\* cache holds an entry under the chunk's fingerprint.
C17_ChunkGoesThroughCacheAndHistory ==
  [][\A k \in DOMAIN tasks :
       LET n == Len(tasks'[k].results)
       IN (n = Len(tasks[k].results) + 1 /\ tasks'[k].results[n].status = "success") =>
            /\ Len(translationHistory') >= 1
            /\ translationHistory'[Len(translationHistory')].translatedText
                 = tasks'[k].results[n].translatedText
            /\ settings.enableCache =>
                 MapHas(translationCache',
                        generateTextHash(tasks[k].texts[n], tasks[k].from, tasks[k].to,
                                         tasks[k].translator))]_vars

\* C19: for a task with texts.length > 0, progress = results.length /
\* texts.length (times 100), and is within 0..100.
C19_ProgressIsRecordedShare ==
  \A k \in DOMAIN tasks :
    Len(tasks[k].texts) > 0 =>
      /\ tasks[k].progress[1] * Len(tasks[k].texts)
           = Len(tasks[k].results) * tasks[k].progress[2]
      /\ tasks[k].progress[1] >= 0
      /\ tasks[k].progress[1] <= tasks[k].progress[2]

\* a task of two chunks waits for its second chunk with progress 1/2
C19_Witness ==
  \E k \in DOMAIN tasks :
    /\ Len(tasks[k].texts) = 2
    /\ Len(tasks[k].results) = 1
    /\ tasks[k].pc = "translating"
    /\ tasks[k].progress = <<1, 2>>

\* C20: of the translate calls a task has started, at most the last one is
\* in flight and all earlier ones are recorded in results, in the order of
\* texts.
C20_ChunksOneAtATime ==
  \A k \in DOMAIN tasks :
    /\ tasks[k].started <= Len(tasks[k].texts)
    /\ tasks[k].started - Len(tasks[k].results) \in {0, 1}
    /\ tasks[k].pc = "translating" <=> tasks[k].started = Len(tasks[k].results) + 1
    /\ \A i \in 1..Len(tasks[k].results) :
         tasks[k].results[i].originalText = tasks[k].texts[i]

\* the call for the second chunk is in flight and the first chunk is recorded
C20_Witness ==
  \E k \in DOMAIN tasks :
    /\ Len(tasks[k].texts) = 2
    /\ tasks[k].started = 2
    /\ Len(tasks[k].results) = 1
    /\ tasks[k].pc = "translating"
    /\ tasks[k].results[1].status = "success"

------------------------------------------------------------\* C21: a batch task calls the factory's createTranslatorAsync at most once,
----------------
(* Properties of HttpUtils.request *)

\* C6: request with retries = r makes attempts until the first success, the
\* first non-retryable failure or r+1 attempts: every attempt but the last
\* failed with a network-level failure, a timeout or a 5xx status, and the
\* last one succeeded (the call returns), failed with a 4xx status or another
\* error, or was attempt number r+1 (the call throws).
C6_AttemptsUntilSuccessOrNonRetryable ==
  LET n == Len(http.outcomes)
      Retryable(o) == \/ o.cause \in {"network", "timeout"}
                      \/ o.cause = "status" /\ o.status >= 500
      Success(o) == o = NoHttpError
  IN /\ n <= http.retries + 1
     /\ http.pc \in {"fetching", "delaying"} =>
          \A i \in 1..n : Retryable(http.outcomes[i])
     /\ http.pc \in {"returned", "thrown"} =>
          /\ n >= 1
          /\ \A i \in 1..(n - 1) : Retryable(http.outcomes[i])
          /\ http.pc = "returned" <=> Success(http.outcomes[n])
          /\ \/ Success(http.outcomes[n])
             \/ ~Retryable(http.outcomes[n])
             \/ n = http.retries + 1

\* C22: the wait between failed attempt k (from 0) and attempt k+1 is
\* retryDelay * 2^k: the waits so far are retryDelay, 2*retryDelay, ...; one
\* wait precedes every attempt but the first and none follows the attempt
\* that ended the call; when all retries+1 attempts failed, the error thrown
\* is the error of the last attempt.
C22_ExponentialBackoffThenLastError ==
  LET n == Len(http.outcomes)
      w == Len(http.waited)
  IN /\ \A k \in 0..(w - 1) : http.waited[k + 1] = http.retryDelay * (2 ^ k)
     /\ http.pc = "fetching" => w = http.attempt /\ n = http.attempt
     /\ http.pc = "delaying" =>
          /\ w = http.attempt + 1
          /\ n = w
          /\ shouldRetry(http.outcomes[n])
          /\ http.attempt < http.retries
     /\ http.pc \in {"returned", "thrown"} => w = n - 1 /\ w = http.attempt
     /\ http.pc = "thrown" /\ n = http.retries + 1 =>
          /\ http.thrown = http.outcomes[n]
          /\ \A i \in 1..n : http.outcomes[i] # NoHttpError

\* three attempts failed in different ways: the call waited retryDelay and
\* 2 * retryDelay and threw the third error
C22_Witness ==
  /\ http.pc = "thrown"
  /\ http.retries = 2
  /\ http.retryDelay = 250
  /\ Len(http.outcomes) = 3
  /\ http.waited = <<250, 500>>
  /\ http.outcomes[1].name = "AbortError"
  /\ http.outcomes[2].name = "TypeError"
  /\ http.outcomes[3].name = "HttpError"
  /\ http.thrown.name = "HttpError"

\* C23: every attempt arms a timer of its own; when the timer of the attempt
\* in flight fires, that attempt fails with an AbortError, which shouldRetry
\* accepts, so that the call waits and retries unless it was the last
\* attempt; when the timer of another attempt fires (one left armed by an
\* attempt whose fetch rejected), nothing but the set of timers changes.
C23_TimerAbortsOnlyItsOwnAttempt ==
  [][ /\ http'.pc = "fetching" => http'.attempt \in http'.timers
      /\ \A a \in 0..MaxRetries :
           TimerFires(a) =>
             IF http.pc = "fetching" /\ http.attempt = a
             THEN /\ http'.outcomes = Append(http.outcomes, http'.lastError)
                  /\ http'.lastError.name = "AbortError"
                  /\ shouldRetry(http'.lastError)
                  /\ http'.pc = IF a = http.retries THEN "thrown" ELSE "delaying"
                  /\ http'.timers = http.timers \ {a}
             ELSE /\ http'.timers = http.timers \ {a}
                  /\ [http' EXCEPT !.timers = {}, !.stale = {}]
                       = [http EXCEPT !.timers = {}, !.stale = {}]
    ]_vars

\* the timer of attempt 0, left armed when its fetch rejected, has fired
\* while attempt 1 was in flight, and attempt 1 then got its response
C23_Witness ==
  /\ http.pc = "returned"
  /\ http.attempt = 1
  /\ http.timers = {}
  /\ http.stale = {0}
  /\ Len(http.outcomes) = 2
  /\ http.outcomes[1].name = "TypeError"
  /\ http.outcomes[2] = NoHttpError

----------------------------------------------------------------------------
(* Properties of the adapter object *)

\* C24: when initialize(config) has failed (validateConfig refused the
\* configuration or doInitialize threw), the error was rethrown and the
\* object is not initialized, also when it was initialized before the call.
C24_FailedInitializeLeavesUninitialized ==
  baseTranslator.initialized.outcome = "threw" =>
    /\ baseTranslator.initialized.message # ""
    /\ ~baseTranslator.isInitialized

\* C25: a translate() call made when no initialize() had succeeded since the
\* construction or since the last destroy() that returned throws the error
\* 'Translator not initialized' and calls doTranslate zero times; doTranslate
\* is called only while isInitialized holds.
C25_TranslateOnlyWhenInitialized ==
  /\ [](baseTranslator.settled.outcome # "none" /\ ~baseTranslator.settled.ready =>
          /\ baseTranslator.settled.outcome = "threw"
          /\ baseTranslator.settled.error.message = "Translator not initialized"
          /\ baseTranslator.settled.adapterCalls = 0)
  /\ [][baseTranslator'.doTranslateCalls # baseTranslator.doTranslateCalls =>
          /\ baseTranslator.isInitialized
          /\ baseTranslator.ready]_vars

\* the object was initialized and destroyed, and the translate() call made
\* after destroy() returned has thrown
C25_Witness ==
  /\ baseTranslator.initialized.outcome = "resolved"
  /\ ~baseTranslator.ready
  /\ baseTranslator.destroy = "idle"
  /\ baseTranslator.settled.outcome = "threw"
  /\ ~baseTranslator.settled.ready
  /\ baseTranslator.settled.request.text # <<>>
  /\ baseTranslator.settled.error.message = "Translator not initialized"
  /\ baseTranslator.doTranslateCalls = 1

\* C26: a translate() call whose request has an empty text, a malformed
\* language code, equal source and target languages, or a source or target
\* language that getSupportedLanguages() does not list, throws, and
\* doTranslate is not called for it.
C26_InvalidRequestMakesNoAdapterCall ==
  LET request == baseTranslator.settled.request
      malformed(code) == code \notin LanguageCodes
      invalid == \/ request.text = <<>>
                 \/ malformed(request.sourceLang)
                 \/ malformed(request.targetLang)
                 \/ request.sourceLang = request.targetLang
                 \/ request.sourceLang \notin SupportedLanguages
                 \/ request.targetLang \notin SupportedLanguages
  IN baseTranslator.settled.outcome # "none" /\ invalid =>
       /\ baseTranslator.settled.outcome = "threw"
       /\ baseTranslator.settled.adapterCalls = 0

\* an initialized object was asked for a target language of the enum that
\* the adapter does not list; the call threw without a doTranslate call
C26_Witness ==
  /\ baseTranslator.settled.outcome = "threw"
  /\ baseTranslator.settled.ready
  /\ baseTranslator.settled.request.text = <<65, 97>>
  /\ baseTranslator.settled.request.sourceLang = "en"
  /\ baseTranslator.settled.request.targetLang = "ca"
  /\ baseTranslator.settled.error.message = "Target language is not supported"
  /\ baseTranslator.settled.adapterCalls = 0
  /\ baseTranslator.doTranslateCalls = 0
  /\ baseTranslator.isInitialized

\* C27: what translate() returns has status 'success'; what it throws
\* carries the code of the first pattern, in the order API key, network or
\* fetch, rate limit, quota, language, that its message contains, and
\* UNKNOWN_ERROR when it contains none, together with the text and the
\* languages of the request.
C27_FailuresAreThrownWithOneCode ==
  LET s == baseTranslator.settled
      order == << <<{"API key"}, "INVALID_API_KEY">>,
                  <<{"network", "fetch"}, "NETWORK_ERROR">>,
                  <<{"rate limit"}, "RATE_LIMIT_EXCEEDED">>,
                  <<{"quota"}, "QUOTA_EXCEEDED">>,
                  <<{"language"}, "UNSUPPORTED_LANGUAGE">> >>
      matches(i) == order[i][1] \cap PatternsIn(s.error.message) # {}
      first == IF \E i \in 1..5 : matches(i)
                 THEN order[CHOOSE i \in 1..5 :
                              matches(i) /\ \A j \in 1..(i - 1) : ~matches(j)][2]
                 ELSE "UNKNOWN_ERROR"
  IN /\ s.outcome = "returned" =>
          /\ s.response.status = "success"
          /\ s.error = NoTranslationError
     /\ s.outcome = "threw" =>
          /\ s.response = NoSuccess
          /\ s.error.message # ""
          /\ s.error.code = first
          /\ s.error.details.originalText = s.request.text
          /\ s.error.details.sourceLanguage = s.request.sourceLang
          /\ s.error.details.targetLanguage = s.request.targetLang

\* doTranslate threw a message that contains 'rate limit' and 'API key'
C27_Witness ==
  /\ baseTranslator.settled.outcome = "threw"
  /\ baseTranslator.settled.adapterCalls = 1
  /\ PatternsIn(baseTranslator.settled.error.message) = {"rate limit", "API key"}
  /\ baseTranslator.settled.error.code = "INVALID_API_KEY"
  /\ baseTranslator.settled.error.details.originalText = <<65, 97>>

----------------------------------------------------------------------------
(* Properties of the factory *)

\* C28: in the step in which unregisterTranslator removes the registration
\* of a type, every instance of that type that was in the instance map,
\* under whatever id, has had its destroy() completed and is no longer in
\* the map, and the instances of the other types are still in the map and
\* no destroy has been started on them.
C28_UnregisterAfterInstancesDestroyed ==
  [][\A type \in TranslatorTypes :
       type \in factory.translators /\ type \notin factory'.translators =>
         \A e \in factory.instances :
           IF factory.objects[e[2]].type = type
             THEN /\ e \notin factory'.instances
                  /\ factory'.objects[e[2]].destroyed
             ELSE /\ e \in factory'.instances
                  /\ factory'.objects[e[2]] = factory.objects[e[2]]
                  /\ \A d \in factory'.destroys \ factory.destroys : d.obj # e[2]
    ]_vars

\* C29: when a createTranslatorAsync call throws because the type is not
\* registered or because the configuration was refused, it has stored no
\* instance and the instance map is what it was when the call was made.
C29_FailedCreateLeavesMapUnchanged ==
  [][ /\ factory'.last.n # factory.last.n
      /\ factory'.last.outcome = "threw"
      /\ factory'.last.message \in {"Translator type is not registered",
                                     "Invalid translator configuration",
                                     "Configuration validation failed"}
      => /\ factory'.last.obj = 0
         /\ factory'.instances = factory'.last.before
    ]_vars

\* C30: when a createTranslatorAsync call that found its id occupied
\* returns, destroy() of the old instance had completed before the new
\* object was constructed, the instance map holds under the id the new
\* object and nothing else, the new object is initialized, and it is the
\* object returned.
C30_ReplacesAfterDestroyingOld ==
  [][ /\ factory'.last.n # factory.last.n
      /\ factory'.last.outcome = "returned"
      /\ factory'.last.old # 0
      => /\ factory'.last.oldDestroyed
         /\ factory'.objects[factory'.last.old].destroyed
         /\ factory'.last.obj # factory'.last.old
         /\ {e \in factory'.instances : e[1] = factory'.last.id}
              = {<<factory'.last.id, factory'.last.obj>>}
         /\ factory'.objects[factory'.last.obj].isInitialized
         /\ factory'.objects[factory'.last.obj].type = factory'.last.type
    ]_vars

\* the second of two calls with the id test_... has returned: the map holds
\* the second object under the id and the first object is destroyed
C30_Witness ==
  /\ factory.last.outcome = "returned"
  /\ factory.last.id = <<"test", 0>>
  /\ factory.last.old = 1
  /\ factory.last.obj = 2
  /\ factory.objects[1].destroyed
  /\ factory.objects[2].isInitialized
  /\ factory.instances = {<<(<<"test", 0>>), 2>>}

----------------------------------------------------------------------------
(* Properties of translateText: what a call may read and write *)

\* C35: a cache hit in translateText returns a translation stored for the
\* (text, sourceLang, targetLang, backend) of the request: the response
\* built from the entry carries the text, the languages and the backend
\* of the request, also when another tuple has the same fingerprint.
C35_HitReturnsEntryOfSameTuple ==
  returned.hit =>
    <<returned.resp.originalText, returned.resp.sourceLang, returned.resp.targetLang,
      returned.resp.translator>> = Tuple(returned.request)

\* C36: a translateText call that returns status 'error', or that is served
\* from the cache, leaves the cache and the history as they were: the only
\* step of a call that changes either is the one in which a backend
\* translation returns with status 'success'; the step in which a call
\* starts, the step in which its instance is created and every step in
\* which a call returns an error response or a cache hit change neither.
C36_ErrorAndHitLeaveCacheAndHistory ==
  [][ /\ calls' # calls \/ returned' # returned
      /\ ~ \E c \in Calls : /\ calls[c].pc = "translating"
                            /\ calls'[c].pc = "idle"
                            /\ returned'.resp.status = "success"
                            /\ ~returned'.hit
      => /\ translationCache' = translationCache
         /\ translationHistory' = translationHistory
    ]_vars

\* a call whose backend failed has returned status 'error' while the cache
\* and the history hold the result of an earlier call
C36_Witness ==
  /\ returned.settled = "resolved"
  /\ returned.resp.status = "error"
  /\ returned.stage = "translate"
  /\ returned.backend = 1
  /\ Len(translationCache) = 1
  /\ Len(translationHistory) = 1

\* C38: a translateText call made before the service's initialize() has
\* completed or after its destroy() has completed returns in the same step
\* a status 'error' response ('Service not initialized'), starts no
\* createTranslatorAsync call and no backend call, and leaves the instances,
\* the cache and the history unchanged.
C38_UninitializedServiceRefuses ==
  [][ /\ svcPc \in {"new", "init_history", "init_cache", "destroyed"}
      /\ \E c \in Calls, request \in Requests : TranslateStart(c, request)
      => /\ returned'.settled = "resolved"
         /\ returned'.resp.status = "error"
         /\ returned'.resp.error = "Service not initialized"
         /\ returned'.stage = "init"
         /\ returned'.backend = 0
         /\ calls' = calls
         /\ instances' = instances
         /\ translationCache' = translationCache
         /\ translationHistory' = translationHistory
    ]_vars

\* a call made after destroy() completed has returned the error response
C38_Witness ==
  /\ svcPc = "destroyed"
  /\ returned.settled = "resolved"
  /\ returned.stage = "init"
  /\ returned.resp.status = "error"
  /\ returned.request.text = <<65, 97>>
  /\ \A c \in Calls : calls[c].pc = "idle"

----------------------------------------------------------------------------
(* Properties of the batch tasks: a backend that cannot be obtained *)

\* C37: a batch task whose backend type has no entry in config.translators,
\* is not registered, or has a configuration the adapter refuses starts no
\* backend translate call at any time, and once executeBatchTranslation has
\* ended the task has status 'failed', the failure message in errors, no
\* results and progress 0.
C37_NoBackendMeansFailedTask ==
  \A k \in DOMAIN tasks :
    LET task == tasks[k]
    IN (task.translator \notin registered \/ settings.translators[task.translator] # "valid")
       => /\ task.started = 0
          /\ task.via = <<>>
          /\ task.results = <<>>
          /\ task.progress[1] = 0
          /\ task.pc \in {"creating", "rejected", "done"}
          /\ task.pc = "done" =>
               /\ task.status = "failed"
               /\ task.rejection \in {"Translator not configured",
                                      "Translator type is not registered",
                                      "Configuration validation failed"}
               /\ \E i \in 1..Len(task.errors) : task.errors[i] = task.rejection

\* a task of two chunks whose configuration the adapter refused has ended
C37_Witness ==
  \E k \in DOMAIN tasks :
    /\ Len(tasks[k].texts) = 2
    /\ tasks[k].pc = "done"
    /\ tasks[k].status = "failed"
    /\ tasks[k].errors = <<"Configuration validation failed">>
    /\ tasks[k].results = <<>>

----------------------------------------------------------------------------
(* Properties of batchTranslate *)

\* C33: batchTranslate processes the requests one after the other and is
\* best-effort per item: the translateText call for request i+1 starts only
\* after the response of request i has been pushed; results[i] is what
\* translateText returned for requests[i]; a request whose call failed has
\* a status 'error' response at its index, with the request's text, and the
\* requests after it are still processed; the call returns exactly
\* requests.length responses.
C33_BatchTranslateBestEffortInOrder ==
  LET b == batchTranslate
  IN /\ b.started <= Len(b.results) + 1
     /\ b.pc = "awaiting" => b.started = Len(b.results) + 1
     /\ (\E c \in Calls : calls[c].pc # "idle") => b.pc = "awaiting"
     /\ Len(b.results) = Len(b.settled)
     /\ Len(b.results) <= Len(b.requests)
     /\ b.pc = "returned" => Len(b.results) = Len(b.requests)
     /\ \A i \in 1..Len(b.settled) :
          /\ b.settled[i].request = b.requests[i]
          /\ b.results[i] = b.settled[i].resp
          /\ b.results[i].status = (IF b.settled[i].stage = "" THEN "success" ELSE "error")
          /\ b.results[i].status = "error" =>
               /\ b.results[i].originalText = b.requests[i].text
               /\ b.results[i].translatedText = <<>>

\* a batch of two requests has returned: the first ('' as text) failed in
\* the backend instance's validation, the second was translated
C33_Witness ==
  /\ batchTranslate.pc = "returned"
  /\ Len(batchTranslate.requests) = 2
  /\ batchTranslate.requests[1].text = <<>>
  /\ batchTranslate.results[1].status = "error"
  /\ batchTranslate.settled[1].stage = "translate"
  /\ batchTranslate.results[2].status = "success"
  /\ batchTranslate.results[2].originalText = batchTranslate.requests[2].text

----------------------------------------------------------------------------
(* Properties of the factory: concurrent calls and the other operations *)

\* C31: createTranslatorAsync calls are not serialized.  Whenever a step
\* replaces the instance held under an id by another one, the step is the
\* store of a createTranslatorAsync call that did not find the replaced
\* instance when it was made (the call that stored it was still in flight),
\* and the step neither calls destroy() on the replaced instance nor
\* changes it.  The witness is the interleaving of two calls with the same
\* explicit id in which both construct and initialize an instance and the
\* first one stored is overwritten without any destroy() on it.
C31_OverwriteWithoutDestroy ==
  [][ \A e \in factory.instances :
        (\E x \in factory'.instances : x[1] = e[1] /\ x[2] # e[2])
        => /\ factory'.last.n # factory.last.n
           /\ factory'.last.outcome = "returned"
           /\ factory'.last.id = e[1]
           /\ <<e[1], factory'.last.obj>> \in factory'.instances
           /\ factory'.last.old # e[2]
           /\ \E c \in 1..MaxCreates : /\ factory.creates[c].pc = "initializing"
                                       /\ factory.creates[c].id = e[1]
                                       /\ e \notin factory.creates[c].before
           /\ factory'.objects[e[2]] = factory.objects[e[2]]
           /\ {d \in factory'.destroys : d.obj = e[2]} = {d \in factory.destroys : d.obj = e[2]}
    ]_vars

\* two calls with the id test_... have both returned; both objects are
\* initialized, the map holds only the second, and no destroy() was called
\* on the first
C31_Witness ==
  /\ Len(factory.objects) = 2
  /\ factory.objects[1].isInitialized /\ ~factory.objects[1].destroyed
  /\ factory.objects[2].isInitialized /\ ~factory.objects[2].destroyed
  /\ factory.instances = {<<(<<"test", 0>>), 2>>}
  /\ factory.destroys = {}
  /\ \A c \in 1..MaxCreates : factory.creates[c].pc = "idle"
  /\ factory.last.outcome = "returned"
  /\ factory.last.id = <<"test", 0>>
  /\ factory.last.old = 0
  /\ factory.last.before = {}

\* C32: destroyAllInstances never throws; when it has returned, destroy()
\* was called on every instance that was in the map when it was called,
\* whether or not the destroy of an earlier one failed, and every such
\* instance whose destroy succeeded is destroyed and no longer in the map.
C32_DestroyAllIsBestEffort ==
  LET op == factory.op
      live == {op.entries[i] : i \in 1..Len(op.entries)}
  IN op.kind = "destroyAllInstances" =>
       /\ op.pc \in {"awaiting", "returned"}
       /\ op.failed \subseteq op.attempted
       /\ op.attempted \subseteq {e[2] : e \in live}
       /\ op.pc = "returned" =>
            /\ op.attempted = {e[2] : e \in live}
            /\ \A e \in live :
                 e[2] \notin op.failed =>
                   /\ factory.objects[e[2]].destroyed
                   /\ e \notin factory.instances

\* destroyAllInstances has returned after the destroy of the first of two
\* instances failed: the second one is destroyed and gone from the map
C32_Witness ==
  /\ factory.op.kind = "destroyAllInstances"
  /\ factory.op.pc = "returned"
  /\ Len(factory.op.entries) = 2
  /\ factory.op.failed = {factory.op.entries[1][2]}
  /\ factory.op.entries[1] \in factory.instances
  /\ factory.objects[factory.op.entries[2][2]].destroyed
  /\ factory.op.entries[2] \notin factory.instances

\* C34: getAvailableInstances never throws; when it returns, isAvailable()
\* was called on every entry of the instance map, and the map it returns
\* holds exactly the entries of the instance map whose isAvailable()
\* resolved to true: an entry whose check resolved to false or threw is
\* left out, and the entries after it are still checked.
C34_AvailableAreThoseThatResolvedTrue ==
  [][ factory'.op.kind = "getAvailableInstances" =>
        /\ factory'.op.pc \in {"checking", "returned"}
        /\ factory'.op.pc = "returned" /\ factory.op.pc # "returned" =>
             /\ factory'.op.attempted = {e[2] : e \in factory'.instances}
             /\ factory'.op.failed \subseteq factory'.op.attempted
             /\ factory'.op.results = {e \in factory'.instances : e[2] \notin factory'.op.failed}
    ]_vars

\* getAvailableInstances has returned: the check of the first of two
\* instances threw, the second is in the returned map
C34_Witness ==
  /\ factory.op.kind = "getAvailableInstances"
  /\ factory.op.pc = "returned"
  /\ Len(factory.op.entries) = 2
  /\ factory.op.errors = 1
  /\ factory.op.failed = {factory.op.entries[1][2]}
  /\ factory.op.results = {factory.op.entries[2]}

\* C39: whenever no operation of the factory is in progress, every instance
\* in the instance map is initialized, also after an operation that failed.
C39_MapHoldsInitializedInstances ==
  Quiescent(factory) =>
    \A e \in factory.instances : factory.objects[e[2]].isInitialized

\* C40: when createMultipleTranslators returns, every key of the map it
\* returns is an id under which the instance map holds the same instance,
\* also for the entries created without an instanceId.
C40_ReturnedKeysAreInstanceIds ==
  [][ /\ factory'.op.kind = "createMultipleTranslators"
      /\ factory'.op.pc = "returned"
      /\ factory.op.pc # "returned"
      => \A r \in factory'.op.results : r \in factory'.instances
    ]_vars

====
